---------------------------- MODULE Spec2Model ----------------------------
(***************************************************************************)
(* A model of the solbuild session manager (builder/manager.go), the       *)
(* overlay mount lifecycle (builder/overlay.go), the package build flow    *)
(* (Package.Build and friends) and the lockfile protocol.                  *)
(*                                                                         *)
(* One process runs one session.  The session has two threads: the worker  *)
(* ("w") that executes Manager.Build / Chroot / Update / Index, and the     *)
(* goroutine started by Manager.SigIntCleanup ("s") that waits for         *)
(* SIGINT/SIGTERM.  Both may call Manager.Cleanup.                         *)
(***************************************************************************)
EXTENDS Integers, Sequences, FiniteSets, TLC

(***************************************************************************)
(* Bounds of the model.                                                    *)
(***************************************************************************)
MaxSources == 1          \* number of source declarations of the recipe
MaxUnmountFailures == 1  \* how many mounts may be busy (their unmount fails)
NumProcs == 3            \* processes contending for one lockfile path

Self == 1                \* the process whose session is modelled in detail
Procs == 1..NumProcs
Inodes == 1..(NumProcs + 1)
Sources == 1..MaxSources
Threads == {"w", "s"}
Ops == {"build", "chroot", "update", "index"}

VARIABLES
    op,            \* the public operation the worker executes
    source,        \* the source declarations of the recipe: scheme of the
                   \* URI, legacy (sha1) or not, the validator
    enableTmpfs,   \* Config.EnableTmpfs copied into overlay.EnableTmpfs
    tmpfsValid,    \* ValidMemSize(overlay.TmpfsSize)
    pc,            \* position of each thread
    mutex,         \* Manager.lock: "none" or the thread holding it
    mgr,           \* Manager fields
    ov,            \* Overlay fields
    mounted,       \* mount points currently in place (mount manager)
    child,         \* the in-sandbox child process of the worker
    sig,           \* the signal channel of SigIntCleanup
    result,        \* what the public operation returned, and whether the
                   \* session was already cancelled when it returned
    exited,        \* exit status of the process, -1 while it runs
    idx,           \* loop index of FetchSources / BindSources
    fetched,       \* sources whose file is in the host cache at the path
                   \* SourceDir/<validator>/<file> that BindSources binds
    budget,        \* mounts the environment may still make busy (unmount fails)
    lockPath,      \* inode the lockfile path names, 0 if the file is absent
    flock,         \* inode -> process holding the advisory lock, 0 if none
    lk,            \* per process: lockfile handle (inode, whether it locked)
    sess,          \* per process other than Self: position in the lock protocol
    hist,          \* history (ghost) record used by the properties
    net,           \* network isolation of the process and the build command
    layer,         \* the dependency layer directory and the session's use of it
    conf,          \* Manager configuration: profile, image, package, overlay
    dl,            \* source fetcher: staging file, source cache, last Fetch
    rs,            \* resolver: the indices, a query and what it returned
    ph,            \* package history: the commits of the recipe, the updates
    lc,            \* layer cache: one layer directory and the processes that
                   \* request it
    rp,            \* a profile, and the repositories the resolver and the
                   \* sandbox use for it
    env            \* host environment, and the environment SaneEnvironment
                   \* built from it

\* State of the library functions that are checked on their own.
sideVars == <<conf, dl, rs, ph, lc, rp, env>>

vars == <<sideVars, layer, net, op, source, enableTmpfs, tmpfsValid, pc, mutex, mgr, ov, mounted, child,
          sig, result, exited, idx, fetched, budget, lockPath, flock, lk,
          sess, hist, net>>

sessVars == <<op, source, enableTmpfs, tmpfsValid, pc, mutex, mgr, ov, mounted, child,
              sig, result, exited, idx, fetched, budget, hist, net, layer>>

lockVars == <<lockPath, flock, lk, sess>>

(***************************************************************************)
(* Mount points.                                                           *)
(***************************************************************************)
\* The bind target of the i-th source inside the sandbox.
SourceTarget(i) == <<"source1", "source2", "source3", "source4">>[i]

(***************************************************************************)
(* The lockfile: a file named by a path, an advisory lock on its inode.    *)
(***************************************************************************)
UsedInodes == {i \in Inodes : lockPath = i \/ \E p \in Procs : lk[p].fd = i}
FreshInode == CHOOSE i \in Inodes \ UsedInodes :
                 \A j \in Inodes \ UsedInodes : i <= j

\* NewLockFile: open the file at the path, creating it if it is absent.
NewLockFile(p) ==
    LET ino == IF lockPath = 0 THEN FreshInode ELSE lockPath IN
    /\ lockPath' = ino
    /\ lk' = [lk EXCEPT ![p] = [fd |-> ino, owner |-> FALSE]]
    /\ UNCHANGED flock

\* LockFile.Lock succeeds iff nobody holds the advisory lock on the inode
\* behind the handle.
CanLock(p) == lk[p].fd # 0 /\ flock[lk[p].fd] = 0

LockFile_Lock(p) ==
    /\ flock' = [flock EXCEPT ![lk[p].fd] = p]
    /\ lk' = [lk EXCEPT ![p].owner = TRUE]
    /\ UNCHANGED lockPath

\* LockFile.Unlock: release the advisory lock if this handle holds it.
LockFile_Unlock(p) ==
    /\ flock' = [i \in Inodes |-> IF flock[i] = p THEN 0 ELSE flock[i]]
    /\ UNCHANGED <<lockPath, lk>>

\* LockFile.Clean removes the file "when safe": the handle is the one that
\* took the lock and nobody holds a lock on the file the path names now.
SafeToRemove(p) ==
    /\ lk[p].owner
    /\ lockPath # 0
    /\ flock[lockPath] = 0

LockFile_Clean(p) ==
    /\ lockPath' = IF SafeToRemove(p) THEN 0 ELSE lockPath
    /\ lk' = [lk EXCEPT ![p].fd = 0]
    /\ UNCHANGED flock

Holders == {p \in Procs : \E i \in Inodes : flock[i] = p}


(***************************************************************************)
(* The worker's program: the steps of each public operation that follow    *)
(* Manager.doLock, in the order the code executes them.                    *)
(***************************************************************************)
MountSeq == <<"MountTmpfs", "EnsureDirs", "MountImg", "MountOverlay",
              "EopkgLayout", "AddBuildUser", "MountDev", "MountVfsRest">>

BuildSeq == <<"InitResolver", "prepareLayer", "CleanExisting">> \o MountSeq \o
            <<"CopyAssets", "FetchSources", "pmanInit", "StartDBUS",
              "ConfigureRepos", "Upgrade", "InstallComponent", "CreateDirs",
              "PrepYpkg", "DropNetworking", "BindSources", "AppendSource",
              "EopkgLayout2",
              "BindCaches", "pmanCopyAssets", "usermod", "BuildCmd",
              "ABIReport", "CollectAssets">>

ChrootSeq == MountSeq \o <<"DropNetworking", "ChrootShell">>

IndexSeq == <<"PathExists", "CleanExisting">> \o MountSeq \o
            <<"IndexMkTarget", "IndexBind", "IndexExec">>

UpdateSeq == <<"UpdMkdir", "UpdMountRoot", "UpdLayout", "UpdMountProc",
               "pmanInit", "StartDBUS", "Upgrade", "InstallComponent",
               "StopDBUS", "AddBuildUser">>

OpSeq(o) == CASE o = "build"  -> BuildSeq
              [] o = "chroot" -> ChrootSeq
              [] o = "index"  -> IndexSeq
              [] o = "update" -> UpdateSeq

PosOf(o, l) == CHOOSE i \in 1..Len(OpSeq(o)) : OpSeq(o)[i] = l

\* The label that follows l in the operation, "w_return" after the last one.
After(o, l) == IF PosOf(o, l) = Len(OpSeq(o)) THEN "w_return"
               ELSE OpSeq(o)[PosOf(o, l) + 1]

\* Steps that return their error to the caller and have no other effect the
\* model tracks.
SimpleSteps == {"InitResolver", "CleanExisting", "EnsureDirs", "EopkgLayout",
                "AddBuildUser", "CopyAssets", "ConfigureRepos", "CreateDirs",
                "EopkgLayout2", "pmanCopyAssets",
                "CollectAssets", "PathExists", "IndexMkTarget", "UpdMkdir",
                "UpdLayout", "StopDBUS"}

\* Simple steps that create or remove directories below the overlay's base
\* directory.
MutatingSteps == {"CleanExisting", "EnsureDirs", "EopkgLayout", "AddBuildUser",
                  "CopyAssets", "CreateDirs", "EopkgLayout2", "pmanCopyAssets",
                  "IndexMkTarget"}

\* Steps that run a child process inside the sandbox (ChrootExec and kin).
ExecSteps == {"StartDBUS", "Upgrade", "InstallComponent", "PrepYpkg", "usermod",
              "BuildCmd", "ABIReport", "ChrootShell", "IndexExec"}

\* Exec steps whose failure the caller only logs.
IgnoredExec == {"usermod", "ABIReport"}

\* Steps that mount one fixed mount point through the mount manager.
MountOf(l) == CASE l = "MountImg"     -> "img"
                [] l = "MountOverlay" -> "union"
                [] l = "MountDev"     -> "dev"
                [] l = "MountVfsRest" -> "vfsrest"
                [] l = "pmanInit"     -> "pkgcache"
                [] l = "BindCaches"   -> "cache"
                [] l = "IndexBind"    -> "index"
                [] l = "UpdMountRoot" -> "root"
                [] l = "UpdMountProc" -> "rootproc"

PlainMountSteps == {"MountImg", "MountDev", "MountVfsRest", "pmanInit",
                    "BindCaches", "IndexBind", "UpdMountRoot", "UpdMountProc"}

\* Steps that precede the in-sandbox build command of a build.
SetupSteps == {OpSeq("build")[i] : i \in 1..(PosOf("build", "BuildCmd") - 1)}

(***************************************************************************)
(* Initial state: a configured session (profile set; package set unless    *)
(* the operation is update) about to enter a public operation.  Another    *)
(* process may already hold the lockfile.                                  *)
(***************************************************************************)
NoHandle == [fd |-> 0, owner |-> FALSE]

\* hist.unmount: the trace of the call of Overlay.Unmount that has just
\* returned to Cleanup, NoUnmount at any other time.
NoUnmount == [due |-> {}, calls |-> <<>>, failed |-> {}, ret |-> "nil"]

InitHist == [lockTaken |-> FALSE, unlocks |-> 0, cleans |-> 0,
             tried |-> {},
             bodies |-> 0, late |-> {},
             steps |-> [t \in Threads |-> {}], err |-> FALSE,
             unlogged |-> FALSE,
             afterCancel |-> {}, unlockedMutation |-> FALSE,
             setupFailed |-> FALSE, buildAfterFailure |-> FALSE,
             sigDuringOp |-> FALSE, handlerCleaned |-> FALSE,
             unmount |-> NoUnmount]

\* Content of a file, and the hashes the fetcher computes of it.  A hash is
\* the pair of the algorithm and the content it was computed from: distinct
\* contents have distinct hashes.
Contents == {"a", "b", "c"}
Sha256(c) == <<"sha256", c>>
Sha1(c) == <<"sha1", c>>
Sha256Sums == {Sha256(c) : c \in Contents}

\* SourceDir and SourceStagingDir before any fetch: cache maps a directory
\* SourceDir/<sha256> to the content of the file in it, links is the set of
\* symlinks SourceDir/<sha1>.
EmptyCache ==
    [staging |-> "none", cache |-> [h \in Sha256Sums |-> "none"], links |-> {},
     last |-> [legacy |-> FALSE, scheme |-> "none", validator |-> <<"none", "">>,
               served |-> "none", err |-> "nil", same |-> TRUE]]

\* ValidMemSize(s), s a string as the tuple of its characters: a number
\* (the decimal syntax of strconv.ParseFloat) followed by one unit character.
ValidMemSize(s) ==
    /\ s # <<>>
    /\ LET allButLast == SubSeq(s, 1, Len(s) - 1)
           digits == {"0", "1", "5", "8"}
           body == IF allButLast # <<>> /\ allButLast[1] \in {"+", "-"}
                   THEN Tail(allButLast) ELSE allButLast
       IN  /\ \E i \in DOMAIN body : body[i] \in digits
           /\ \A i \in DOMAIN body : body[i] \in digits \cup {"."}
           /\ Cardinality({i \in DOMAIN body : body[i] = "."}) <= 1
    /\ s[Len(s)] \in {"G", "T", "P", "E"}

InitSession ==
  \E preCancelled \in BOOLEAN :   \* SetCancelled may precede the operation
    /\ enableTmpfs \in BOOLEAN
    \* Config.TmpfsSize: "", "8G", "1.5T", "8XYZ", "G", "8" or "8.G.".
    /\ tmpfsValid \in {ValidMemSize(s) :
                          s \in {<<>>, <<"8", "G">>, <<"1", ".", "5", "T">>,
                                 <<"8", "X", "Y", "Z">>, <<"G">>, <<"8">>,
                                 <<"8", ".", "G", ".">>}}
    /\ enableTmpfs \/ tmpfsValid   \* the size is only read when tmpfs is on
    /\ pc = [w |-> "w_entry", s |-> "s_off"]
    /\ mutex = "none"
    /\ mgr = [cancelled |-> preCancelled, didStart |-> FALSE, updateMode |-> FALSE,
              pkgManager |-> (op # "update"), dbusActive |-> FALSE,
              layer |-> "nil", lockfile |-> FALSE, activePID |-> 0,
              deferred |-> FALSE]
    /\ ov = [mountedImg |-> FALSE, mountedOverlay |-> FALSE,
             mountedVFS |-> FALSE, mountedTmpfs |-> FALSE,
             extraMounts |-> <<>>]
    /\ mounted = {}
    /\ child = [st |-> "none", ph |-> "idle"]
    /\ sig = "none"
    /\ result = [val |-> "none", cancelled |-> FALSE]
    /\ exited = -1
    /\ idx = 1
    /\ fetched = {}
    /\ source \in {[scheme |-> s, legacy |-> l,
                    validator |-> IF l THEN Sha1("a") ELSE Sha256("a")] :
                      s \in {"https", "file"}, l \in BOOLEAN}
    /\ budget = MaxUnmountFailures
    /\ hist = InitHist
    \* The process starts in the network namespace of the host; canNetwork
    \* is the networking key of the recipe (Package.CanNetwork).
    /\ net \in [canNetwork : BOOLEAN, unshared : {FALSE}, loopback : {FALSE},
                built : {FALSE}]
    \* The directory LayersDir/<hash> of the layer the session will ask for:
    \* absent, left with a content directory by a creation that did not
    \* finish, or complete.  ready: RequestOverlay handed the layer to this
    \* session.
    /\ layer \in [dir : {"absent", "partial", "complete"}, ready : {FALSE},
                  created : {FALSE}]

InitLockFree ==
    /\ lockPath = 0
    /\ flock = [i \in Inodes |-> 0]
    /\ lk = [p \in Procs |-> NoHandle]
    /\ sess = [p \in Procs |-> "idle"]

InitLockHeld ==
    /\ lockPath = 1
    /\ flock = [i \in Inodes |-> IF i = 1 THEN 2 ELSE 0]
    /\ lk = [p \in Procs |-> IF p = 2 THEN [fd |-> 1, owner |-> TRUE]
                             ELSE NoHandle]
    /\ sess = [p \in Procs |-> IF p = 2 THEN "holding" ELSE "idle"]

\* NewManager: no profile, image, package or overlay yet.
NewManager ==
    [defaultProfile |-> "main-x86_64", enableHistory |-> FALSE,
     profile |-> "nil", image |-> "nil", pkg |-> "nil", overlay |-> "nil",
     history |-> FALSE,
     last |-> [call |-> "none", arg |-> "nil", err |-> "nil",
               hadProfile |-> FALSE, hadPkg |-> FALSE, same |-> TRUE]]

\* The library functions are at rest while a session operation is followed.
\* NewResolver: no index added, nothing asked.
NewResolver ==
    [providers |-> <<>>, nameToPkg |-> <<>>, pkgs |-> <<>>,
     withBase |-> FALSE, withDevel |-> FALSE, emul32 |-> FALSE,
     phase |-> "idle", first |-> <<>>, second |-> <<>>]

\* Release and commit time of the recipe at a commit.
MaxRelease == 2
MaxTime == 2
Releases == 1..MaxRelease
Times == 1..MaxTime
Revisions == [release : Releases, time : Times]

\* A repository without commits: log counts the commits of each parseable
\* revision of the recipe, malformed those whose recipe does not parse.
EmptyLog == [log |-> [c \in Revisions |-> 0], malformed |-> 0,
             scanned |-> FALSE, Updates |-> <<>>]

\* No process has asked for the layer, whose directory does not exist.
NoLayers == [dir |-> "absent", at |-> [p \in Procs |-> "idle"], made |-> 0]

\* No profile loaded.
NoProfile == [image |-> "", repos |-> {}, add |-> <<>>, remove |-> <<>>,
              removeMissingFails |-> FALSE, phase |-> "idle",
              resolver |-> {}, sandbox |-> [err |-> FALSE, repos |-> {}]]

\* SaneEnvironment not called.
NoEnvironment == [host |-> <<>>, DisableColors |-> FALSE, phase |-> "idle",
                  environment |-> <<>>]

LibIdle == lc = NoLayers /\ rp = NoProfile /\ env = NoEnvironment

SideIdle ==
    /\ conf = NewManager /\ dl = EmptyCache /\ rs = NewResolver /\ ph = EmptyLog
    /\ LibIdle

\* A build session that has not started, on a host without a lock file.
SessionIdle ==
    /\ op = "build"
    /\ InitSession
    /\ ~enableTmpfs /\ tmpfsValid /\ ~mgr.cancelled /\ ~net.canNetwork
    /\ source.scheme = "https" /\ ~source.legacy
    /\ layer.dir = "absent"
    /\ InitLockFree

Init ==
    /\ op \in Ops
    /\ InitSession
    /\ ~net.canNetwork            \* the recipe leaves networking off
    /\ source.scheme = "https" /\ ~source.legacy   \* and has modern sources
    /\ layer.dir = "absent"       \* no layer of this key on the host yet
    /\ (InitLockFree \/ InitLockHeld)
    /\ SideIdle

Alive == exited = -1
Cap2(n) == IF n >= 2 THEN 2 ELSE n + 1


(***************************************************************************)
(* Worker: Manager.Build / Chroot / Update / Index up to Manager.doLock.   *)
(***************************************************************************)
\* A return statement of the worker: the result is fixed, then the deferred
\* Manager.Cleanup runs if the defer statement has been executed.
ReturnTo(res) ==
    /\ result' = [val |-> res, cancelled |-> mgr.cancelled]
    /\ pc' = [pc EXCEPT !["w"] = IF mgr.deferred THEN "c_check" ELSE "w_exit"]

\* if m.IsCancelled() { return ErrInterrupted }
Manager_Entry ==
    /\ Alive /\ pc["w"] = "w_entry" /\ mutex = "none"
    /\ IF mgr.cancelled
          THEN ReturnTo("interrupted")
          ELSE /\ pc' = [pc EXCEPT !["w"] = "w_check"]
               /\ UNCHANGED result
    /\ UNCHANGED <<sideVars, layer, net, op, source, enableTmpfs, tmpfsValid, mutex, mgr, ov, mounted, child,
                   sig, exited, idx, fetched, budget, hist>>
    /\ UNCHANGED lockVars

\* The package check of Build/Chroot/Index, the image check of Update (which
\* also sets updateMode and the package manager), then "defer m.Cleanup()"
\* and "m.SigIntCleanup()".
Manager_SigIntCleanup ==
    /\ Alive /\ pc["w"] = "w_check" /\ mutex = "none"
    /\ mgr' = [mgr EXCEPT !.deferred = TRUE,
                          !.updateMode = (op = "update"),
                          !.pkgManager = TRUE]
    /\ pc' = [pc EXCEPT !["w"] = IF op \in {"build", "index"}
                                    THEN "w_tmpfs" ELSE "w_newlock",
                        !["s"] = "s_wait"]
    /\ UNCHANGED <<sideVars, layer, net, op, source, enableTmpfs, tmpfsValid, mutex, ov, mounted, child,
                   sig, result, exited, idx, fetched, budget, hist>>
    /\ UNCHANGED lockVars

TmpfsRejected_Never == FALSE

\* !ValidMemSize(m.overlay.TmpfsSize) && m.overlay.EnableTmpfs
TmpfsRejected == enableTmpfs /\ ~tmpfsValid

\* Build and Index copy Config.EnableTmpfs and Config.TmpfsSize into the
\* overlay, then: if TmpfsRejected { log.Panic }
Manager_TmpfsCheck ==
    /\ Alive /\ pc["w"] = "w_tmpfs"
    /\ IF TmpfsRejected
          THEN ReturnTo("panic")
          ELSE /\ pc' = [pc EXCEPT !["w"] = "w_newlock"]
               /\ UNCHANGED result
    /\ UNCHANGED <<sideVars, layer, net, op, source, enableTmpfs, tmpfsValid, mutex, mgr, ov, mounted, child,
                   sig, exited, idx, fetched, budget, hist>>
    /\ UNCHANGED lockVars

\* doLock: lock, err := NewLockFile(path); m.lockfile = lock
doLock_NewLockFile ==
    /\ Alive /\ pc["w"] = "w_newlock"
    /\ \E ok \in BOOLEAN :
          IF ok
             THEN /\ NewLockFile(Self)
                  /\ mgr' = [mgr EXCEPT !.lockfile = TRUE]
                  /\ pc' = [pc EXCEPT !["w"] = "w_lock"]
                  /\ UNCHANGED result
             ELSE /\ ReturnTo("err")
                  /\ UNCHANGED <<mgr, lockPath, flock, lk>>
    /\ UNCHANGED sess
    /\ UNCHANGED <<sideVars, layer, net, op, source, enableTmpfs, tmpfsValid, mutex, ov, mounted, child,
                   sig, exited, idx, fetched, budget, hist>>

OnLockError_Ignored ==
    pc' = [pc EXCEPT !["w"] = "w_didstart"] /\ UNCHANGED result

\* doLock: what a failed Lock() leads to: the error is logged and returned.
OnLockError == ReturnTo("err")

\* doLock: if err = m.lockfile.Lock(); err != nil { return err }
doLock_Lock ==
    /\ Alive /\ pc["w"] = "w_lock"
    /\ IF CanLock(Self)
          THEN /\ LockFile_Lock(Self)
               /\ hist' = [hist EXCEPT !.lockTaken = TRUE]
               /\ pc' = [pc EXCEPT !["w"] = "w_didstart"]
               /\ UNCHANGED result
          ELSE /\ OnLockError
               /\ UNCHANGED <<hist, lockPath, flock, lk>>
    /\ UNCHANGED sess
    /\ UNCHANGED <<sideVars, layer, net, op, source, enableTmpfs, tmpfsValid, mutex, mgr, ov, mounted, child,
                   sig, exited, idx, fetched, budget>>

\* doLock: m.didStart = true; return nil
doLock_didStart ==
    /\ Alive /\ pc["w"] = "w_didstart"
    /\ mgr' = [mgr EXCEPT !.didStart = TRUE]
    /\ pc' = [pc EXCEPT !["w"] = OpSeq(op)[1]]
    /\ UNCHANGED <<sideVars, layer, net, op, source, enableTmpfs, tmpfsValid, mutex, ov, mounted, child,
                   sig, result, exited, idx, fetched, budget, hist>>
    /\ UNCHANGED lockVars


(***************************************************************************)
(* Source fetcher: SimpleSource.Fetch and SimpleSource.download.           *)
(***************************************************************************)
\* The validator of a recipe: a sha256 sum, the sha1 sum of a legacy recipe,
\* or a string that is not hexadecimal.
Validators ==
    Sha256Sums \cup {Sha1(c) : c \in Contents} \cup {<<"nothex", "">>}

\* SimpleSource.download(destPath): the error it returns and the staging
\* file it leaves.  A file: URI is copied; any other URI is fetched with
\* grab, which compares the sha256 sum with the validator unless the source
\* is legacy and keeps the file when they differ.
download(d, scheme, legacy, validator, served, transfer) ==
    IF scheme = "file"
    THEN IF transfer = "ok" THEN [err |-> "nil", staging |-> served]
         ELSE [err |-> "copy", staging |-> d.staging]
    ELSE IF transfer # "ok" THEN [err |-> "transfer", staging |-> d.staging]
    ELSE IF ~legacy /\ validator[1] = "nothex"
         THEN [err |-> "hex", staging |-> d.staging]
    ELSE IF ~legacy /\ Sha256(served) # validator
         THEN [err |-> "ErrBadChecksum", staging |-> served]
    ELSE [err |-> "nil", staging |-> served]

Fetched(d, legacy, scheme, validator, served, err, e) ==
    [e EXCEPT !.last = [legacy |-> legacy, scheme |-> scheme,
                        validator |-> validator, served |-> served,
                        err |-> err,
                        same |-> e.cache = d.cache /\ e.links = d.links]]

\* SimpleSource.Fetch: download to the staging directory, hash what was
\* obtained, move it to SourceDir/<hash>/<file>, and for a legacy source
\* link SourceDir/<sha1> to it.
Fetch(d, scheme, legacy, validator, served, transfer) ==
    LET got == download(d, scheme, legacy, validator, served, transfer)
        hash == Sha256(got.staging)
        moved == [d EXCEPT !.staging = "none", !.cache[hash] = got.staging]
    IN  IF got.err # "nil"
        THEN Fetched(d, legacy, scheme, validator, served, got.err,
                     [d EXCEPT !.staging = got.staging])
        ELSE IF ~legacy
        THEN Fetched(d, legacy, scheme, validator, served, "nil", moved)
        ELSE IF Sha1(got.staging) \in d.links
        THEN Fetched(d, legacy, scheme, validator, served, "symlink", moved)
        ELSE Fetched(d, legacy, scheme, validator, served, "nil",
                     [moved EXCEPT !.links = @ \cup {Sha1(got.staging)}])

\* SimpleSource.IsFetched: PathExists(SourceDir/<validator>/<file>).
IsFetched(d, validator) ==
    \/ validator \in Sha256Sums /\ d.cache[validator] # "none"
    \/ validator \in d.links

(***************************************************************************)
(* Worker: the body of the operation (Package.Build, Package.Chroot,       *)
(* Package.Index, BackingImage.Update).  None of these steps takes the     *)
(* session mutex, and none of them reads the cancelled flag.               *)
(***************************************************************************)
hostVars == <<sideVars, op, source, enableTmpfs, tmpfsValid, mutex, sig, exited,
              budget, lockPath, flock, lk, sess>>

steadyVars == <<layer, hostVars>>

fixedVars == <<net, steadyVars>>

AtStep(S) == Alive /\ pc["w"] \in S /\ pc["w"] \in {OpSeq(op)[i] : i \in 1..Len(OpSeq(op))}

Goto(l) == pc' = [pc EXCEPT !["w"] = l] /\ UNCHANGED result
GoNext == Goto(After(op, pc["w"]))

\* History bookkeeping of one worker step: kind is "fetch", "mount", "exec"
\* or "other"; failed tells whether the step met an error.
Note(kind, failed) ==
    [hist EXCEPT
       !.afterCancel = IF mgr.cancelled /\ kind # "other" THEN @ \cup {kind} ELSE @,
       !.unlockedMutation = @ \/ ((pc["w"] \in MutatingSteps \/ kind = "mount")
                                    /\ ~hist.lockTaken),
       !.setupFailed = @ \/ (failed /\ op = "build" /\ pc["w"] \in SetupSteps)]

\* A successful mount through the mount manager.
DoMount(h, m) == /\ mounted' = mounted \cup {m}
                 /\ hist' = [h EXCEPT !.tried = @ \ {m}]

Worker_Simple ==
    /\ AtStep(SimpleSteps)
    /\ \E ok \in BOOLEAN :
          /\ hist' = Note("other", ~ok)
          /\ IF ok THEN GoNext ELSE ReturnTo("err")
    /\ mgr' = [mgr EXCEPT !.dbusActive = IF pc["w"] = "StopDBUS" THEN FALSE ELSE @]
    /\ UNCHANGED <<ov, mounted, child, idx, fetched>>
    /\ UNCHANGED fixedVars

\* The step ConfigureNetworking takes when DropNetworking failed, were its
\* error not returned.
AfterDropError_Ignored == "configure"

\* if err := DropNetworking(); err != nil { return err }
AfterDropError == "return"

\* if !p.CanNetwork { DropNetworking(); overlay.ConfigureNetworking() }:
\* unshare and ip are the outcomes of
\* syscall.Unshare(CLONE_NEWNET|CLONE_NEWUTS) and of "ip link set lo up".
Package_DropNetworking ==
    /\ AtStep({"DropNetworking"})
    /\ \E unshare \in BOOLEAN, ip \in BOOLEAN :
          LET configure == unshare \/ AfterDropError = "configure"
              ok == net.canNetwork \/ (configure /\ ip)
          IN  /\ net' = [net EXCEPT
                            !.unshared = ~net.canNetwork /\ unshare,
                            !.loopback = ~net.canNetwork /\ configure /\ ip]
              /\ hist' = Note("other", ~ok)
              /\ IF ok THEN GoNext ELSE ReturnTo("err")
    /\ UNCHANGED <<mgr, ov, mounted, child, idx, fetched>>
    /\ UNCHANGED steadyVars

\* Manager.prepareLayer: CalcDeps, m.layer = &Layer{...}, RequestOverlay.
\* Layer.RequestOverlay: the layer is reused when its content directory
\* exists, created otherwise.  Layer.Create makes the directories first, so
\* a creation that fails leaves a content directory behind.  Nothing assigns
\* Layer.created.
Layer_RequestOverlay(l, createOk) ==
    IF l.dir = "absent"
    THEN [l EXCEPT !.dir = IF createOk THEN "complete" ELSE "partial",
                   !.ready = createOk]
    ELSE [l EXCEPT !.ready = TRUE]

Manager_prepareLayer ==
    /\ AtStep({"prepareLayer"})
    /\ \E out \in {"calcfail", "reqfail", "ok"} :
          /\ out = "reqfail" => layer.dir = "absent"
          /\ hist' = Note("other", out # "ok")
          /\ mgr' = [mgr EXCEPT !.layer = IF out = "calcfail" THEN @ ELSE "set"]
          /\ layer' = IF out = "calcfail" THEN layer
                      ELSE Layer_RequestOverlay(layer, out = "ok")
          /\ IF out = "ok" THEN GoNext ELSE ReturnTo("err")
    /\ UNCHANGED <<ov, mounted, child, idx, fetched>>
    /\ UNCHANGED <<net, hostVars>>

\* Overlay.Mount, tmpfs part.  overlay.EnableTmpfs is false (NewOverlay)
\* unless Build or Index copied the option of the configuration.  A failure
\* to create the base directory makes Mount return nil: ActivateRoot carries
\* on with AddBuildUser.
Overlay_Mount_Tmpfs ==
    /\ AtStep({"MountTmpfs"})
    /\ IF ~(enableTmpfs /\ op \in {"build", "index"})
          THEN /\ GoNext
               /\ UNCHANGED <<hist, mounted>>
          ELSE \E out \in {"mkdirfail", "mountfail", "ok"} :
                 CASE out = "mkdirfail" ->
                        /\ hist' = Note("mount", TRUE)
                        /\ Goto("AddBuildUser")
                        /\ UNCHANGED mounted
                   [] out = "mountfail" ->
                        /\ hist' = Note("mount", TRUE)
                        /\ ReturnTo("err")
                        /\ UNCHANGED mounted
                   [] out = "ok" ->
                        /\ DoMount(Note("mount", FALSE), "tmpfs")
                        /\ GoNext
    /\ UNCHANGED <<mgr, ov, child, idx, fetched>>
    /\ UNCHANGED fixedVars

\* The flags and the extra-mount list a successful mount step updates.
OverlayAfterMount(l) ==
    CASE l = "MountImg" -> [ov EXCEPT !.mountedImg = TRUE]
      [] l = "MountDev" -> [ov EXCEPT !.mountedVFS = TRUE]
      [] l \in {"BindCaches", "IndexBind"} ->
            [ov EXCEPT !.extraMounts = Append(@, MountOf(l))]
      [] OTHER -> ov

\* mountMan.Mount / BindMount followed by "return err" on failure.
Worker_Mount ==
    /\ AtStep(PlainMountSteps)
    /\ \E ok \in BOOLEAN :
          IF ok
             THEN /\ DoMount(Note("mount", FALSE), MountOf(pc["w"]))
                  /\ ov' = OverlayAfterMount(pc["w"])
                  /\ GoNext
             ELSE /\ hist' = Note("mount", TRUE)
                  /\ ReturnTo("err")
                  /\ UNCHANGED <<ov, mounted>>
    /\ UNCHANGED <<mgr, child, idx, fetched>>
    /\ UNCHANGED fixedVars

\* The lower directories of the union Overlay.Mount makes:
\* fmt.Sprintf("lowerdir=%s", o.ImgDir).
Overlay_LowerDirs(o) == {"img"}

\* Overlay.Mount, the union: log.Panic on failure.
Overlay_Mount_Overlay ==
    /\ AtStep({"MountOverlay"})
    /\ \E ok \in BOOLEAN :
          IF ok
             THEN /\ DoMount(Note("mount", FALSE), "union")
                  /\ ov' = [ov EXCEPT !.mountedOverlay = TRUE]
                  /\ GoNext
             ELSE /\ hist' = Note("mount", TRUE)
                  /\ ReturnTo("panic")
                  /\ UNCHANGED <<ov, mounted>>
    /\ UNCHANGED <<mgr, child, idx, fetched>>
    /\ UNCHANGED fixedVars

\* Package.FetchSources, one iteration of the loop: a source an earlier run
\* left in the host cache (IsFetched) is skipped, any other is fetched:
\* served is what the URI yields, transfer the result of the transfer.
Package_FetchSources ==
    /\ AtStep({"FetchSources"})
    /\ LET last == idx = MaxSources IN
       \/ /\ fetched' = fetched \cup {idx}
          /\ IF last THEN GoNext ELSE UNCHANGED <<pc, result>>
          /\ idx' = IF last THEN 1 ELSE idx + 1
          /\ UNCHANGED hist
       \/ \E served \in Contents, transfer \in {"ok", "error"} :
             LET e == Fetch(EmptyCache, source.scheme, source.legacy,
                            source.validator, served, transfer)
             IN  IF e.last.err = "nil"
                 THEN /\ fetched' = IF IsFetched(e, source.validator)
                                    THEN fetched \cup {idx} ELSE fetched
                      /\ hist' = Note("fetch", FALSE)
                      /\ IF last THEN GoNext ELSE UNCHANGED <<pc, result>>
                      /\ idx' = IF last THEN 1 ELSE idx + 1
                 ELSE /\ hist' = Note("fetch", TRUE)
                      /\ ReturnTo("err")
                      /\ UNCHANGED <<fetched, idx>>
    /\ UNCHANGED <<mgr, ov, mounted, child>>
    /\ UNCHANGED fixedVars

\* Package.BindSources, one iteration of the loop up to mountMan.BindMount.
\* The bind target is created when os.Stat finds the file to bind; a failure
\* to create it is logged and the function returns nil.  BindMount fails
\* when the file to bind does not exist.
Package_BindSources ==
    /\ AtStep({"BindSources"})
    /\ \E out \in {"targetfail", "bindfail", "ok"} :
          CASE out = "targetfail" ->
                 /\ idx \in fetched
                 /\ hist' = Note("other", TRUE)
                 /\ Goto(After(op, "AppendSource"))
                 /\ idx' = 1
                 /\ UNCHANGED mounted
            [] out = "bindfail" ->
                 /\ hist' = Note("mount", TRUE)
                 /\ ReturnTo("err")
                 /\ UNCHANGED <<mounted, idx>>
            [] out = "ok" ->
                 /\ idx \in fetched
                 /\ DoMount(Note("mount", FALSE), SourceTarget(idx))
                 /\ Goto("AppendSource")
                 /\ UNCHANGED idx
    /\ UNCHANGED <<mgr, ov, child, fetched>>
    /\ UNCHANGED fixedVars

\* Package.BindSources, the statement after a successful BindMount:
\* o.ExtraMounts = append(o.ExtraMounts, bindConfig.BindTarget); the loop
\* goes on with the next source.
Package_AppendSource ==
    /\ AtStep({"AppendSource"})
    /\ ov' = [ov EXCEPT !.extraMounts = Append(@, SourceTarget(idx))]
    /\ IF idx = MaxSources THEN GoNext ELSE Goto("BindSources")
    /\ idx' = IF idx = MaxSources THEN 1 ELSE idx + 1
    /\ UNCHANGED <<mgr, mounted, child, fetched, hist>>
    /\ UNCHANGED fixedVars


(***************************************************************************)
(* Child processes: ChrootExec starts the child, publishes its PID under   *)
(* the session mutex (SetActivePID) and waits for it without the mutex.    *)
(***************************************************************************)
\* c.Start()
ChrootExec_Start ==
    /\ AtStep(ExecSteps) /\ child.ph = "idle"
    /\ \E ok \in BOOLEAN :
          /\ IF ok
             THEN /\ child' = [st |-> "running", ph |-> "started"]
                  /\ hist' = [Note("exec", FALSE) EXCEPT
                                !.buildAfterFailure =
                                    @ \/ (pc["w"] = "BuildCmd" /\ hist.setupFailed)]
                  /\ UNCHANGED <<pc, result>>
             ELSE /\ hist' = Note("exec", pc["w"] \notin IgnoredExec)
                  /\ IF pc["w"] \in IgnoredExec THEN GoNext ELSE ReturnTo("err")
                  /\ UNCHANGED child
          /\ net' = [net EXCEPT !.built = @ \/ (ok /\ pc["w"] = "BuildCmd")]
    /\ UNCHANGED <<mgr, ov, mounted, idx, fetched>>
    /\ UNCHANGED steadyVars

SetActivePID_KeepsLock == "w"

\* SetActivePID: m.lock.Lock(); defer m.lock.Unlock(): the holder of the
\* session mutex once SetActivePID has returned.
SetActivePID_Release == "none"

\* notif.SetActivePID(c.Process.Pid)
ChrootExec_SetActivePID ==
    /\ Alive /\ child.ph = "started" /\ mutex = "none"
    /\ pc["w"] \in ExecSteps
    /\ mgr' = [mgr EXCEPT !.activePID = 1]
    /\ child' = [child EXCEPT !.ph = "published"]
    /\ mutex' = SetActivePID_Release
    /\ UNCHANGED <<pc, result, ov, mounted, idx, fetched, hist>>
    /\ UNCHANGED <<sideVars, layer, net, op, source, enableTmpfs, tmpfsValid, sig, exited, budget>>
    /\ UNCHANGED lockVars

\* The child terminates by itself.
Child_Exit ==
    /\ Alive /\ child.st = "running"
    /\ \E ok \in BOOLEAN :
          child' = [child EXCEPT !.st = IF ok THEN "exitedOk" ELSE "exitedFail"]
    /\ UNCHANGED <<pc, result, mgr, ov, mounted, idx, fetched, hist>>
    /\ UNCHANGED fixedVars

\* c.Wait() returns; on success the caller resets the PID (SetActivePID(0)).
ChrootExec_Wait ==
    /\ Alive /\ child.ph = "published" /\ pc["w"] \in ExecSteps
    /\ child.st \in {"exitedOk", "exitedFail", "killed"}
    /\ child' = [st |-> "none", ph |-> "idle"]
    /\ IF child.st = "exitedOk"
          THEN /\ mutex = "none"
               /\ mgr' = [mgr EXCEPT !.activePID = 0,
                                     !.dbusActive = @ \/ pc["w"] = "StartDBUS"]
               /\ GoNext
               /\ UNCHANGED hist
          ELSE /\ hist' = Note("other", pc["w"] \notin IgnoredExec)
               /\ IF pc["w"] \in IgnoredExec THEN GoNext ELSE ReturnTo("err")
               /\ UNCHANGED mgr
    /\ UNCHANGED <<ov, mounted, idx, fetched>>
    /\ UNCHANGED fixedVars

\* The operation ran to its end: return nil.
Worker_Return ==
    /\ Alive /\ pc["w"] = "w_return"
    /\ ReturnTo("ok")
    /\ UNCHANGED <<mgr, ov, mounted, child, idx, fetched, hist>>
    /\ UNCHANGED fixedVars

\* The public operation has returned to the command line, which ends the
\* process: status 0 on success, a panic (status 2) on any error.
Worker_Exit ==
    /\ Alive /\ pc["w"] = "w_exit"
    /\ exited' = IF result.val = "ok" THEN 0 ELSE 2
    /\ UNCHANGED <<sideVars, layer, net, op, source, enableTmpfs, tmpfsValid, pc, mutex, mgr, ov, mounted,
                   child, sig, result, idx, fetched, budget, hist>>
    /\ UNCHANGED lockVars

(***************************************************************************)
(* The signal goroutine of Manager.SigIntCleanup.                          *)
(***************************************************************************)
\* SIGINT or SIGTERM is delivered to the process (signal.Notify channel).
Signal ==
    /\ Alive /\ pc["s"] = "s_wait" /\ sig = "none"
    /\ sig' = "pending"
    /\ hist' = [hist EXCEPT !.sigDuringOp = pc["w"] # "w_exit"]
    /\ UNCHANGED <<sideVars, layer, net, op, source, enableTmpfs, tmpfsValid, pc, mutex, mgr, ov, mounted,
                   child, result, exited, idx, fetched, budget>>
    /\ UNCHANGED lockVars

\* <-ch
SigInt_Receive ==
    /\ Alive /\ pc["s"] = "s_wait" /\ sig = "pending"
    /\ sig' = "taken"
    /\ pc' = [pc EXCEPT !["s"] = "s_setc"]
    /\ UNCHANGED <<sideVars, layer, net, op, source, enableTmpfs, tmpfsValid, mutex, mgr, ov, mounted,
                   child, result, exited, idx, fetched, budget, hist>>
    /\ UNCHANGED lockVars

AfterSetCancelled_ExitFirst == "s_exit"

\* What the goroutine does after SetCancelled: m.Cleanup(), then os.Exit(1).
AfterSetCancelled == "c_check"

\* m.SetCancelled()
SigInt_SetCancelled ==
    /\ Alive /\ pc["s"] = "s_setc" /\ mutex = "none"
    /\ mgr' = [mgr EXCEPT !.cancelled = TRUE]
    /\ pc' = [pc EXCEPT !["s"] = AfterSetCancelled]
    /\ UNCHANGED <<sideVars, layer, net, op, source, enableTmpfs, tmpfsValid, mutex, ov, mounted,
                   child, sig, result, exited, idx, fetched, budget, hist>>
    /\ UNCHANGED lockVars

\* os.Exit(1)
SigInt_Exit ==
    /\ Alive /\ pc["s"] = "s_exit"
    /\ exited' = 1
    /\ UNCHANGED <<sideVars, layer, net, op, source, enableTmpfs, tmpfsValid, pc, mutex, mgr, ov, mounted,
                   child, sig, result, idx, fetched, budget, hist>>
    /\ UNCHANGED lockVars


(***************************************************************************)
(* Unmounting.  F is the set of mount points whose unmount the environment *)
(* makes fail; unmounting a point that is not mounted fails as well.       *)
(***************************************************************************)
UnmountFails(m, mnt, F) == m \in F \/ m \notin mnt

\* Overlay.Unmount: the extra mounts, the VFS mounts, then the image, the
\* union and the tmpfs, each of the last three returning on its first error.
\* Yields the overlay, the mounts left and the mounted points it tried; and
\* in trace the kinds of mount the overlay recorded at the call (due), the
\* kinds it called Unmount on, in order (calls), those whose Unmount gave an
\* error (failed) and the kind whose error it returned (ret).
Overlay_Unmount(o, mnt, F) ==
    LET extras == {o.extraMounts[i] : i \in 1..Len(o.extraMounts)}
        vfs    == IF o.mountedVFS THEN {"dev", "vfsrest"} ELSE {}
        due    == {k \in {"extras", "vfs", "img", "union", "tmpfs"} :
                      \/ k = "extras" /\ extras # {}
                      \/ k = "vfs" /\ o.mountedVFS
                      \/ k = "img" /\ o.mountedImg
                      \/ k = "union" /\ o.mountedOverlay
                      \/ k = "tmpfs" /\ o.mountedTmpfs}
        calls1 == (IF extras # {} THEN <<"extras">> ELSE <<>>)
                     \o (IF o.mountedVFS THEN <<"vfs">> ELSE <<>>)
        fail1  == {k \in {"extras", "vfs"} :
                      \E m \in (IF k = "extras" THEN extras ELSE vfs) :
                         UnmountFails(m, mnt, F)}
        calls2 == calls1 \o (IF o.mountedImg THEN <<"img">> ELSE <<>>)
        calls3 == calls2 \o (IF o.mountedOverlay THEN <<"union">> ELSE <<>>)
        mnt1   == mnt \ ((extras \cup vfs) \ F)
        o1     == [o EXCEPT !.extraMounts = <<>>, !.mountedVFS = FALSE]
        try1   == (extras \cup vfs) \cap mnt
        imgErr == o.mountedImg /\ UnmountFails("img", mnt1, F)
        mnt2   == IF o.mountedImg /\ ~imgErr THEN mnt1 \ {"img"} ELSE mnt1
        o2     == [o1 EXCEPT !.mountedImg = @ /\ imgErr]
        try2   == try1 \cup (IF o.mountedImg THEN {"img"} \cap mnt ELSE {})
        ovlErr == o.mountedOverlay /\ UnmountFails("union", mnt2, F)
        mnt3   == IF o.mountedOverlay /\ ~ovlErr THEN mnt2 \ {"union"} ELSE mnt2
        o3     == [o2 EXCEPT !.mountedOverlay = @ /\ ovlErr]
        try3   == try2 \cup (IF o.mountedOverlay THEN {"union"} \cap mnt ELSE {})
    IN  IF imgErr
        THEN [ov |-> o2, mounted |-> mnt2, tried |-> try2, err |-> TRUE,
              trace |-> [due |-> due, calls |-> calls2,
                         failed |-> fail1 \cup {"img"}, ret |-> "img"]]
        ELSE IF ovlErr
        THEN [ov |-> o3, mounted |-> mnt3, tried |-> try3, err |-> TRUE,
              trace |-> [due |-> due, calls |-> calls3,
                         failed |-> fail1 \cup {"union"}, ret |-> "union"]]
        ELSE IF o.mountedTmpfs
        THEN [ov |-> o3, mounted |-> mnt3, tried |-> try3, err |-> TRUE,
              trace |-> [due |-> due, calls |-> Append(calls3, "tmpfs"),
                         failed |-> fail1 \cup {"tmpfs"}, ret |-> "tmpfs"]]
        ELSE [ov |-> o3, mounted |-> mnt3, tried |-> try3, err |-> FALSE,
              trace |-> [due |-> due, calls |-> calls3, failed |-> fail1,
                         ret |-> "nil"]]

UnmountAll_Skipped(mnt, F) == [mounted |-> mnt, tried |-> {}]

\* disk.GetMountManager().UnmountAll(): every mount still registered is tried.
UnmountAll(mnt, F) == [mounted |-> mnt \cap F, tried |-> mnt]

\* Package.DeactivateRoot: overlay.Unmount() then mountMan.UnmountAll().
DeactivateRoot(o, mnt, F) ==
    LET u == Overlay_Unmount(o, mnt, F)
        a == UnmountAll(u.mounted, F)
    IN  [ov |-> u.ov, mounted |-> a.mounted, tried1 |-> u.tried,
         tried2 |-> a.tried, err |-> u.err, trace |-> u.trace]

\* History: the points still mounted on which an unmount has been invoked.
NoteUnmounts(h, tried, mnt) == [h EXCEPT !.tried = (@ \cup tried) \cap mnt]

(***************************************************************************)
(* Manager.Cleanup, called by thread t: the worker's deferred call or the  *)
(* signal goroutine's call.                                                *)
(***************************************************************************)
AfterCleanup(t) == IF t = "w" THEN "w_exit" ELSE "s_exit"

CleanupSteps == {"stop", "kill", "mdk", "deact", "mdk2", "umountall", "layer",
                 "unlock", "clean"}

\* History bookkeeping of one cleanup step: eff tells whether the step acted
\* on a process, a mount, the layer directory or the lockfile.  Cleanup logs
\* the error (slog.Error) of the layer removal, of Unlock and of Clean; the
\* results of the other calls are discarded.
Step(h, t, name, eff, err) ==
    [h EXCEPT !.steps[t] = @ \cup {name},
              !.err = @ \/ err,
              !.unlogged = @ \/ (err /\ name \notin {"layer", "unlock", "clean"}),
              !.late = IF h.bodies >= 2 /\ eff THEN @ \cup {name} ELSE @]

cleanupFixed == <<sideVars, layer, net, op, source, enableTmpfs, tmpfsValid, sig, result, exited, idx,
                  fetched>>

\* if !m.didStart { return }
Cleanup_Check(t) ==
    /\ Alive /\ pc[t] = "c_check"
    /\ pc' = [pc EXCEPT ![t] = IF mgr.didStart THEN "c_lock" ELSE AfterCleanup(t)]
    /\ hist' = [hist EXCEPT !.handlerCleaned = @ \/ (t = "s" /\ ~mgr.didStart)]
    /\ UNCHANGED <<mutex, mgr, ov, mounted, child, budget>>
    /\ UNCHANGED cleanupFixed /\ UNCHANGED lockVars

\* m.lock.Lock(); defer m.lock.Unlock()
Cleanup_Lock(t) ==
    /\ Alive /\ pc[t] = "c_lock" /\ mutex = "none"
    /\ mutex' = t
    /\ pc' = [pc EXCEPT ![t] = "c_stop"]
    /\ hist' = [hist EXCEPT !.bodies = Cap2(@), !.steps[t] = {},
                            !.err = FALSE]
    /\ UNCHANGED <<mgr, ov, mounted, child, budget>>
    /\ UNCHANGED cleanupFixed /\ UNCHANGED lockVars

\* m.pkgManager.StopDBUS(); m.pkgManager.Cleanup()
Cleanup_StopServices(t) ==
    /\ Alive /\ pc[t] = "c_stop"
    /\ \E err \in BOOLEAN, F \in SUBSET ({"pkgcache"} \cap mounted) :
          /\ Cardinality(F \ hist.tried) <= budget
          /\ budget' = budget - Cardinality(F \ hist.tried)
          /\ mounted' = IF mgr.pkgManager THEN (mounted \ {"pkgcache"}) \cup F
                        ELSE mounted
          /\ hist' = NoteUnmounts(
                        Step(hist, t, "stop",
                             mgr.pkgManager /\ "pkgcache" \in mounted, err),
                        IF mgr.pkgManager THEN {"pkgcache"} \cap mounted ELSE {},
                        mounted')
    /\ mgr' = [mgr EXCEPT !.dbusActive = @ /\ ~mgr.pkgManager]
    /\ pc' = [pc EXCEPT ![t] = "c_kill"]
    /\ UNCHANGED <<mutex, ov, child>>
    /\ UNCHANGED cleanupFixed /\ UNCHANGED lockVars

\* syscall.Kill(-m.activePID, SIGKILL); sleep; again; m.activePID = 0
Cleanup_KillActivePID(t) ==
    /\ Alive /\ pc[t] = "c_kill"
    /\ LET hit == mgr.activePID > 0 /\ child.st = "running"
                     /\ child.ph = "published" IN
       /\ child' = IF hit THEN [child EXCEPT !.st = "killed"] ELSE child
       /\ hist' = Step(hist, t, "kill", hit, FALSE)
    /\ mgr' = [mgr EXCEPT !.activePID = 0]
    /\ pc' = [pc EXCEPT ![t] = "c_mdk"]
    /\ UNCHANGED <<mutex, ov, mounted, budget>>
    /\ UNCHANGED cleanupFixed /\ UNCHANGED lockVars

\* MurderDeathKill(deathPoint): kills the processes whose working directory
\* is the root; the child may or may not be among them.  Called ten times
\* before DeactivateRoot ("c_mdk") and once after it ("c_mdk2").
Cleanup_MurderDeathKill(t) ==
    /\ Alive /\ pc[t] \in {"c_mdk", "c_mdk2"}
    /\ \E hit \in {FALSE, child.st = "running"}, err \in BOOLEAN :
          /\ child' = IF hit THEN [child EXCEPT !.st = "killed"] ELSE child
          /\ hist' = [Step(hist, t, IF pc[t] = "c_mdk" THEN "mdk" ELSE "mdk2",
                           hit, err) EXCEPT !.unmount = NoUnmount]
    /\ pc' = [pc EXCEPT ![t] = IF pc[t] = "c_mdk" THEN "c_deact" ELSE "c_umountall"]
    /\ UNCHANGED <<mutex, mgr, ov, mounted, budget>>
    /\ UNCHANGED cleanupFixed /\ UNCHANGED lockVars

\* if m.pkg != nil { DeactivateRoot }
Cleanup_DeactivateRoot(t) ==
    /\ Alive /\ pc[t] = "c_deact"
    /\ IF op # "update"
          THEN \E F \in SUBSET mounted :
                  /\ Cardinality(F \ hist.tried) <= budget
                  /\ budget' = budget - Cardinality(F \ hist.tried)
                  /\ LET r == DeactivateRoot(ov, mounted, F) IN
                     /\ ov' = r.ov
                     /\ mounted' = r.mounted
                     /\ hist' = [NoteUnmounts(
                                   Step(hist, t, "deact",
                                        (r.tried1 \cup r.tried2) # {}, r.err),
                                   r.tried1 \cup r.tried2, r.mounted)
                                   EXCEPT !.unmount = r.trace]
          ELSE /\ hist' = Step(hist, t, "deact", FALSE, FALSE)
               /\ UNCHANGED <<ov, mounted, budget>>
    /\ pc' = [pc EXCEPT ![t] = "c_mdk2"]
    /\ UNCHANGED <<mutex, mgr, child>>
    /\ UNCHANGED cleanupFixed /\ UNCHANGED lockVars

\* disk.GetMountManager().UnmountAll()
Cleanup_UnmountAll(t) ==
    /\ Alive /\ pc[t] = "c_umountall"
    /\ \E F \in SUBSET mounted :
          /\ Cardinality(F \ hist.tried) <= budget
          /\ budget' = budget - Cardinality(F \ hist.tried)
          /\ LET r == UnmountAll(mounted, F) IN
             /\ mounted' = r.mounted
             /\ hist' = NoteUnmounts(
                           Step(hist, t, "umountall", r.tried # {}, F # {}),
                           r.tried, r.mounted)
    /\ pc' = [pc EXCEPT ![t] = "c_layer"]
    /\ UNCHANGED <<mutex, mgr, ov, child>>
    /\ UNCHANGED cleanupFixed /\ UNCHANGED lockVars

\* if m.layer != nil { m.layer.RemoveIfNotCreated() }
\* Layer.RemoveIfNotCreated: if !l.created { os.RemoveAll(l.BasePath()) }
Layer_RemoveIfNotCreated(l) ==
    IF ~l.created THEN [l EXCEPT !.dir = "absent"] ELSE l

Cleanup_RemoveLayer(t) ==
    /\ Alive /\ pc[t] = "c_layer"
    /\ \E err \in BOOLEAN :
          /\ hist' = Step(hist, t, "layer", mgr.layer # "nil",
                          err /\ mgr.layer # "nil")
          /\ layer' = IF mgr.layer # "nil"
                      THEN Layer_RemoveIfNotCreated(layer) ELSE layer
    /\ pc' = [pc EXCEPT ![t] = "c_unlock"]
    /\ UNCHANGED <<mutex, mgr, ov, mounted, child, budget>>
    /\ UNCHANGED <<sideVars, net, op, source, enableTmpfs, tmpfsValid, sig, result,
                   exited, idx, fetched>>
    /\ UNCHANGED lockVars


AfterUnlock_ReturnOnError(err) == IF err THEN "c_ret" ELSE "c_clean"

\* The step that follows m.lockfile.Unlock(): its error is only logged.
AfterUnlock(err) == "c_clean"

\* if m.lockfile != nil { m.lockfile.Unlock() ... }
Cleanup_Unlock(t) ==
    /\ Alive /\ pc[t] = "c_unlock"
    /\ IF mgr.lockfile
          THEN \E err \in BOOLEAN :
                  /\ LockFile_Unlock(Self)
                  /\ hist' = [Step(hist, t, "unlock", TRUE, err) EXCEPT
                                 !.unlocks = Cap2(@)]
                  /\ pc' = [pc EXCEPT ![t] = AfterUnlock(err)]
          ELSE /\ pc' = [pc EXCEPT ![t] = "c_ret"]
               /\ hist' = Step(Step(hist, t, "unlock", FALSE, FALSE), t, "clean",
                               FALSE, FALSE)
               /\ UNCHANGED lockVars
    /\ UNCHANGED <<mutex, mgr, ov, mounted, child, budget, sess>>
    /\ UNCHANGED cleanupFixed

\* ... m.lockfile.Clean() }
Cleanup_Clean(t) ==
    /\ Alive /\ pc[t] = "c_clean"
    /\ \E err \in BOOLEAN :
          /\ LockFile_Clean(Self)
          /\ hist' = [Step(hist, t, "clean", TRUE, err) EXCEPT !.cleans = Cap2(@)]
    /\ pc' = [pc EXCEPT ![t] = "c_ret"]
    /\ UNCHANGED <<mutex, mgr, ov, mounted, child, budget, sess>>
    /\ UNCHANGED cleanupFixed

\* Cleanup returns; the deferred m.lock.Unlock() runs.
Cleanup_Return(t) ==
    /\ Alive /\ pc[t] = "c_ret" /\ mutex = t
    /\ mutex' = "none"
    /\ pc' = [pc EXCEPT ![t] = AfterCleanup(t)]
    /\ hist' = [hist EXCEPT !.handlerCleaned = @ \/ t = "s"]
    /\ UNCHANGED <<mgr, ov, mounted, child, budget>>
    /\ UNCHANGED cleanupFixed /\ UNCHANGED lockVars

(***************************************************************************)
(* Other solbuild processes using the same lockfile path.  Each runs the   *)
(* lock protocol of a session: doLock (NewLockFile, Lock) and, at its end, *)
(* the release in Cleanup (Unlock, Clean).                                 *)
(***************************************************************************)
\* doLock: NewLockFile(path)
Sess_NewLockFile(p) ==
    /\ sess[p] = "idle"
    /\ NewLockFile(p)
    /\ sess' = [sess EXCEPT ![p] = "opened"]
    /\ UNCHANGED <<sessVars, sideVars>>

\* doLock: Lock(); on failure the operation returns and the process ends
\* without Cleanup touching the lockfile (didStart is false).
Sess_Lock(p) ==
    /\ sess[p] = "opened"
    /\ IF CanLock(p)
          THEN /\ LockFile_Lock(p)
               /\ sess' = [sess EXCEPT ![p] = "holding"]
          ELSE /\ lk' = [lk EXCEPT ![p] = NoHandle]
               /\ sess' = [sess EXCEPT ![p] = "idle"]
               /\ UNCHANGED <<lockPath, flock>>
    /\ UNCHANGED <<sessVars, sideVars>>

\* Cleanup: m.lockfile.Unlock()
Sess_Unlock(p) ==
    /\ sess[p] = "holding"
    /\ LockFile_Unlock(p)
    /\ sess' = [sess EXCEPT ![p] = "unlocked"]
    /\ UNCHANGED <<sessVars, sideVars>>

\* Cleanup: m.lockfile.Clean(); the process ends, another may start later.
Sess_Clean(p) ==
    /\ sess[p] = "unlocked"
    /\ LockFile_Clean(p)
    /\ sess' = [sess EXCEPT ![p] = "idle"]
    /\ UNCHANGED <<sessVars, sideVars>>

(***************************************************************************)
(* Specifications.                                                         *)
(***************************************************************************)
Worker ==
    \/ Manager_Entry \/ Manager_SigIntCleanup \/ Manager_TmpfsCheck
    \/ doLock_NewLockFile \/ doLock_Lock \/ doLock_didStart
    \/ Worker_Simple \/ Package_DropNetworking \/ Manager_prepareLayer \/ Overlay_Mount_Tmpfs
    \/ Worker_Mount \/ Overlay_Mount_Overlay
    \/ Package_FetchSources \/ Package_BindSources \/ Package_AppendSource
    \/ ChrootExec_Start \/ ChrootExec_SetActivePID \/ ChrootExec_Wait
    \/ Worker_Return \/ Worker_Exit

Handler == SigInt_Receive \/ SigInt_SetCancelled \/ SigInt_Exit

Cleanup(t) ==
    \/ Cleanup_Check(t) \/ Cleanup_Lock(t) \/ Cleanup_StopServices(t)
    \/ Cleanup_KillActivePID(t) \/ Cleanup_MurderDeathKill(t)
    \/ Cleanup_DeactivateRoot(t) \/ Cleanup_UnmountAll(t)
    \/ Cleanup_RemoveLayer(t) \/ Cleanup_Unlock(t) \/ Cleanup_Clean(t)
    \/ Cleanup_Return(t)

Next ==
    \/ Worker
    \/ Handler
    \/ Cleanup("w")
    \/ Cleanup("s")
    \/ Signal
    \/ Child_Exit

Spec == Init /\ [][Next]_vars

\* No session under way, no library call made: the state the lock protocol
\* and each library function start from.
LockInit == SessionIdle /\ SideIdle

\* The lock protocol alone: every process runs it, one session after another.

LockSpec ==
    LockInit /\ [][\E p \in Procs : \/ Sess_NewLockFile(p)
                                    \/ Sess_Lock(p)
                                    \/ Sess_Unlock(p)
                                    \/ Sess_Clean(p)]_vars

(***************************************************************************)
(* Properties.                                                             *)
(***************************************************************************)
Exited == exited # -1

\* C1: when the process ends, every mount that is still in place has had an
\* unmount invoked on it since it was mounted, so that a mount can only
\* remain if its unmount failed.
C1_MountsUnmountedAtExit == Exited => mounted \subseteq hist.tried

\* C2: a process that took the lockfile lock has called Unlock and Clean on
\* it by the time it ends, whichever way it ends.
C2_LockReleasedAtExit ==
    Exited /\ hist.lockTaken => hist.unlocks >= 1 /\ hist.cleans >= 1

\* C3: a call of Cleanup that follows a completed one kills nothing, unmounts
\* nothing, removes no layer and does not touch the lockfile.
C3_SecondCleanupIsNoOp == hist.late = {}

C6_NoNewWorkAfterCancel == hist.afterCancel = {}

\* C7: an operation that returns while the session is cancelled returns the
\* cancellation error, whatever other error it met.
C7_CancelledReturnsInterrupted ==
    result.cancelled /\ result.val # "panic" => result.val = "interrupted"

\* C8: the build command is never started after a setup step of the build
\* has failed.
C8_NoBuildAfterFailedSetup == ~hist.buildAfterFailure

\* C9: no step of build, chroot or index creates, removes or mounts anything
\* under the overlay's base directory before doLock has taken the lockfile.
C9_LockBeforeMutation == ~hist.unlockedMutation

C9_Witness ==
    /\ hist.lockTaken
    /\ op \in {"build", "chroot", "index"}
    /\ {"img", "union"} \subseteq mounted

\* C10: at any time at most one process holds the lock taken through the
\* lockfile path.
C10_AtMostOneHolder == Cardinality(Holders) <= 1

CleanupBody == {"c_stop", "c_kill", "c_mdk", "c_deact", "c_mdk2", "c_umountall",
                "c_layer", "c_unlock", "c_clean", "c_ret"}

UnguardedAccess(t) ==
    IF mutex = t THEN {}
    ELSE CASE t = "w" /\ pc[t] = "w_newlock"  -> {"lockfile"}
           [] t = "w" /\ pc[t] = "w_didstart" -> {"didStart"}
           [] pc[t] = "c_check"               -> {"didStart"}
           [] OTHER                           -> {}

\* C12: the worker and the signal goroutine are never about to access the
\* same shared session field at the same time while neither holds the session
\* mutex.
C12_NoConcurrentUnguardedAccess ==
    Alive => UnguardedAccess("w") \cap UnguardedAccess("s") = {}

(***************************************************************************)
(* Manager configuration: Manager.SetProfile and Manager.SetPackage.       *)
(***************************************************************************)
\* Profile files found below ConfigPaths, with the image each one names.
ProfileFiles ==
    [n \in {"main-x86_64", "unstable-x86_64", "custom"} |->
        IF n = "custom" THEN "custom-x86_64" ELSE n]

ValidImages == {"main-x86_64", "unstable-x86_64"}

NewProfile(name) ==
    IF name \in DOMAIN ProfileFiles
    THEN [err |-> "nil", name |-> name, image |-> ProfileFiles[name]]
    ELSE [err |-> "ErrInvalidProfile", name |-> "nil", image |-> "nil"]

IsValidImage(image) == image \in ValidImages

NewOverlay(c, pkg) == [profile |-> c.profile, image |-> c.image, pkg |-> pkg]

Configured(c) == <<c.profile, c.image, c.pkg, c.overlay>>

Called(c, call, arg, err, d) ==
    [d EXCEPT !.last = [call |-> call, arg |-> arg, err |-> err,
                        hadProfile |-> c.image # "nil",
                        hadPkg |-> c.pkg # "nil",
                        same |-> Configured(d) = Configured(c)]]

\* Manager.SetProfile: the argument is resolved and validated first, the
\* "already initialised" test comes after it.
SetProfile(c, arg) ==
    LET profile == IF arg = "" THEN c.defaultProfile ELSE arg
        prof == NewProfile(profile)
    IN  IF prof.err # "nil" THEN Called(c, "SetProfile", arg, prof.err, c)
        ELSE IF ~IsValidImage(prof.image)
             THEN Called(c, "SetProfile", arg, "ErrInvalidImage", c)
        ELSE IF c.image # "nil"
             THEN Called(c, "SetProfile", arg, "ErrManagerInitialised", c)
        ELSE Called(c, "SetProfile", arg, "nil",
                    [c EXCEPT !.profile = prof.name, !.image = prof.image])

\* Manager.SetPackage: installed is BackingImage.IsInstalled at the call,
\* git the outcome of opening the repository of the recipe.  A manager
\* without an image dereferences nil in IsInstalled.
SetPackage(c, pkg, type, installed, git) ==
    IF c.pkg # "nil" THEN Called(c, "SetPackage", pkg, "ErrManagerInitialised", c)
    ELSE IF c.image = "nil" THEN Called(c, "SetPackage", pkg, "panic", c)
    ELSE IF ~installed
         THEN Called(c, "SetPackage", pkg, "ErrProfileNotInstalled", c)
    ELSE IF c.enableHistory /\ type = "ypkg" /\ git = "error"
         THEN Called(c, "SetPackage", pkg, "cannot open Git repository", c)
    ELSE Called(c, "SetPackage", pkg, "nil",
                [c EXCEPT !.pkg = pkg, !.overlay = NewOverlay(c, pkg),
                          !.history = (c.enableHistory /\ type = "ypkg"
                                       /\ git = "ok")])

Manager_SetProfile ==
    /\ conf.last.err # "panic"
    \* "" asks for the default profile.
    /\ \E arg \in {"", "main-x86_64", "unstable-x86_64", "custom", "nosuch"} :
          conf' = SetProfile(conf, arg)
    /\ UNCHANGED <<sessVars, lockVars, dl, rs, ph, lc, rp, env>>

Manager_SetPackage ==
    /\ conf.last.err # "panic"
    /\ \E pkg \in {"pkgA", "pkgB"}, type \in {"ypkg", "xml"},
          installed \in BOOLEAN,
          git \in {"ok", "ErrRepositoryNotExists", "error"} :
          conf' = SetPackage(conf, pkg, type, installed, git)
    /\ UNCHANGED <<sessVars, lockVars, dl, rs, ph, lc, rp, env>>

ConfigInit ==
    /\ SessionIdle /\ dl = EmptyCache /\ rs = NewResolver /\ ph = EmptyLog
    /\ LibIdle
    /\ \E d \in {"main-x86_64", "nosuch"}, h \in BOOLEAN :
          conf = [NewManager EXCEPT !.defaultProfile = d, !.enableHistory = h]

ConfigSpec == ConfigInit /\ [][Manager_SetProfile \/ Manager_SetPackage]_vars

\* C13: a SetProfile call on a manager that already has a profile, and a
\* SetPackage call on a manager that already has a package, returns
\* ErrManagerInitialised whatever the argument, and leaves the profile, the
\* image, the package and the overlay as they were.
C13_ReconfigurationRefused ==
    /\ conf.last.call = "SetProfile" /\ conf.last.hadProfile
          => conf.last.err = "ErrManagerInitialised" /\ conf.last.same
    /\ conf.last.call = "SetPackage" /\ conf.last.hadPkg
          => conf.last.err = "ErrManagerInitialised" /\ conf.last.same

(***************************************************************************)
(* One build on any host and of any recipe, without signals.               *)
(***************************************************************************)
BuildInit ==
    /\ op = "build"
    /\ InitSession
    /\ (InitLockFree \/ InitLockHeld)
    /\ SideIdle

BuildSpec == BuildInit /\ [][Worker \/ Cleanup("w") \/ Child_Exit]_vars

(***************************************************************************)
(* Source fetcher as a library: any Fetch on any cache.                     *)
(***************************************************************************)
SimpleSource_Fetch ==
    \* transfer: the result of the HEAD or GET request, or of the copy.
    /\ \E scheme \in {"https", "file"}, legacy \in BOOLEAN,
          validator \in Validators, served \in Contents,
          transfer \in {"ok", "error"} :
          dl' = Fetch(dl, scheme, legacy, validator, served, transfer)
    /\ UNCHANGED <<sessVars, lockVars, conf, rs, ph, lc, rp, env>>

FetchSpec == LockInit /\ [][SimpleSource_Fetch]_vars

\* C16: a fetch of a modern source that succeeds leaves, at the cached path
\* of the source, bytes whose sha256 sum is the validator; when the bytes
\* obtained have another sum the fetch fails with the checksum error and the
\* source cache is left as it was.
C16_FetchValidates ==
    ~dl.last.legacy /\ dl.last.scheme # "none" =>
       /\ dl.last.err = "nil" =>
             /\ dl.last.validator \in Sha256Sums
             /\ dl.cache[dl.last.validator] # "none"
             /\ Sha256(dl.cache[dl.last.validator]) = dl.last.validator
       /\ dl.last.err \notin {"copy", "transfer", "hex"}
          /\ Sha256(dl.last.served) # dl.last.validator =>
             dl.last.err = "ErrBadChecksum" /\ dl.last.same

(***************************************************************************)
(* Dependency resolver: Resolver.AddIndex and Resolver.Query.              *)
(***************************************************************************)
Emul32Pkgs == <<"glibc-32bit-devel", "libgcc-32bit", "libstdc++-32bit">>

\* The package names in the order of cmp.Compare.
NameOrder == Emul32Pkgs \o <<"p", "q", "v", "w", "x">>
Rank(n) == CHOOSE k \in 1..Len(NameOrder) : NameOrder[k] = n

IndexPackage(n, partOf, deps, pkgconfig) ==
    [name |-> n, partOf |-> partOf, deps |-> deps, pkgconfig |-> pkgconfig]

\* The repository indices of the bounded check.  "m" is a name no index
\* holds.
Indices ==
    { <<IndexPackage("p", pp, pd, {}), IndexPackage("q", qp, qd, {}),
        IndexPackage("x", "", xd, {"x"}), IndexPackage("v", "", <<>>, {})>>
        \o (IF w THEN <<IndexPackage("w", "", <<>>, {})>> ELSE <<>>)
        \o (IF e THEN [k \in 1..Len(Emul32Pkgs) |->
                          IndexPackage(Emul32Pkgs[k], "", <<>>, {})]
            ELSE <<>>) :
      pp \in {"system.base", ""}, pd \in {<<"x", "w">>, <<>>},
      qp \in {"system.base", "system.devel", ""}, qd \in {<<"x", "v">>, <<"p">>},
      xd \in {<<>>, <<"m">>, <<"q">>}, w \in BOOLEAN, e \in BOOLEAN }

Provider(c) == IF c = "x" THEN "pkgconfig(x)" ELSE "pkgconfig(other)"

\* Resolver.AddIndex: the first package of a name, and the first provider
\* of a pkgconfig name, are kept.
RECURSIVE AddIndex(_, _, _)
AddIndex(r, ix, k) ==
    IF k > Len(ix) THEN r
    ELSE LET pkg == ix[k]
             named == IF pkg.name \in DOMAIN r.nameToPkg THEN r.nameToPkg
                      ELSE [n \in DOMAIN r.nameToPkg \cup {pkg.name} |->
                              IF n = pkg.name THEN pkg ELSE r.nameToPkg[n]]
             new == {Provider(c) : c \in pkg.pkgconfig} \ DOMAIN r.providers
             provs == [n \in DOMAIN r.providers \cup new |->
                         IF n \in new THEN pkg.name ELSE r.providers[n]]
         IN  AddIndex([r EXCEPT !.nameToPkg = named, !.providers = provs],
                      ix, k + 1)

\* The running state of one Query: visited, res, the named result err and
\* ret, whether the dfs call that just returned gave an error.
QueryStart == [visited |-> {}, res |-> <<>>, err |-> FALSE, ret |-> FALSE]

RECURSIVE dfs(_, _, _)
RECURSIVE dfsDeps(_, _, _, _)
dfs(r, asked, st) ==
    LET name == IF asked \in DOMAIN r.providers THEN r.providers[asked]
                ELSE asked
    IN  IF name \in st.visited THEN [st EXCEPT !.ret = FALSE]
        ELSE IF name \notin DOMAIN r.nameToPkg THEN [st EXCEPT !.ret = TRUE]
        ELSE dfsDeps(r, r.nameToPkg[name].deps, 1,
                     [st EXCEPT !.visited = @ \cup {name},
                                !.res = Append(@, r.nameToPkg[name].name)])

\* for _, dep := range RuntimeDependencies { if err = dfs(dep.Name); ... }
dfsDeps(r, deps, k, st) ==
    IF k > Len(deps) THEN [st EXCEPT !.ret = FALSE]
    ELSE LET s == dfs(r, deps[k], st)
         IN  IF s.ret THEN [s EXCEPT !.err = TRUE]
             ELSE dfsDeps(r, deps, k + 1, [s EXCEPT !.err = FALSE])

\* A loop of dfs calls whose results are dropped.
RECURSIVE dfsAll(_, _, _, _)
dfsAll(r, names, k, st) ==
    IF k > Len(names) THEN st
    ELSE dfsAll(r, names, k + 1, dfs(r, names[k], st))

\* for _, pkg := range pkgs { err = dfs(pkg); if err != nil { return } }
RECURSIVE dfsSeeds(_, _, _, _)
dfsSeeds(r, pkgs, k, st) ==
    IF k > Len(pkgs) THEN st
    ELSE LET s == dfs(r, pkgs[k], st)
         IN  IF s.ret THEN [s EXCEPT !.err = TRUE]
             ELSE dfsSeeds(r, pkgs, k + 1, [s EXCEPT !.err = FALSE])

\* slices.SortFunc(res, cmp.Compare of the names): insertion of each element
\* before the first one of a higher name.
RECURSIVE Insert(_, _)
Insert(s, n) ==
    IF s = <<>> THEN <<n>>
    ELSE IF Rank(n) < Rank(Head(s)) THEN <<n>> \o s
    ELSE <<Head(s)>> \o Insert(Tail(s), n)

RECURSIVE SortByName(_)
SortByName(s) == IF s = <<>> THEN <<>>
                 ELSE Insert(SortByName(Tail(s)), Head(s))

\* The packages the first loop of Query calls dfs on, as a set: the loop
\* ranges over the map nameToPkg, whose iteration order Go leaves open.
ComponentRoots(r) ==
    {n \in DOMAIN r.nameToPkg :
        \/ r.withBase /\ r.nameToPkg[n].partOf = "system.base"
        \/ ~(r.withBase /\ r.nameToPkg[n].partOf = "system.base")
           /\ r.withDevel /\ r.nameToPkg[n].partOf = "system.devel"}

Orders(S) == {s \in [1..Cardinality(S) -> S] : \A n \in S : \E k \in DOMAIN s : s[k] = n}

\* Resolver.Query(pkgs, withBase, withDevel, emul32), the map being ranged
\* over in the order mapOrder: the result list and whether err is set.
Query(r, pkgs, mapOrder) ==
    LET s1 == IF r.withBase \/ r.withDevel
              THEN dfsAll(r, mapOrder, 1, QueryStart) ELSE QueryStart
        s2 == IF r.emul32 THEN dfsAll(r, Emul32Pkgs, 1, s1) ELSE s1
        s3 == dfsSeeds(r, pkgs, 1, s2)
    IN  IF s3.ret THEN [err |-> TRUE, res |-> s3.res]
        ELSE [err |-> s3.err, res |-> SortByName(s3.res)]

MaxSeeds == 2
SeedLists == UNION {{s \in [1..k -> {"p", "q", "x", "m", "pkgconfig(x)"}] :
                        \A a, b \in 1..k : a # b => s[a] # s[b]} : k \in 0..MaxSeeds}

\* The resolver after InitResolver, and the arguments of the query.
ResolverInit ==
    \E ix \in Indices, pkgs \in SeedLists, b \in BOOLEAN, d \in BOOLEAN,
       e \in BOOLEAN :
       rs = [AddIndex(NewResolver, ix, 1) EXCEPT
                !.pkgs = pkgs, !.withBase = b, !.withDevel = d, !.emul32 = e,
                !.phase = "asked"]

\* Two queries of the same resolver with the same flags, the second with
\* the seed list permuted.
Resolver_Query ==
    /\ rs.phase = "asked"
    /\ \E perm \in Orders({k : k \in 1..Len(rs.pkgs)}),
          o1 \in Orders(ComponentRoots(rs)), o2 \in Orders(ComponentRoots(rs)) :
          rs' = [rs EXCEPT
                   !.phase = "answered",
                   !.first = Query(rs, rs.pkgs, o1),
                   !.second = Query(rs, [k \in 1..Len(rs.pkgs) |-> rs.pkgs[perm[k]]], o2)]
    /\ UNCHANGED <<sessVars, lockVars, conf, dl, ph, lc, rp, env>>

QueryInit ==
    /\ SessionIdle /\ conf = NewManager /\ dl = EmptyCache /\ ph = EmptyLog
    /\ LibIdle
    /\ ResolverInit

QuerySpec == QueryInit /\ [][Resolver_Query]_vars

\* What a caller of Query tells apart: the error, or the sorted list.
Outcome(o) == IF o.err THEN <<"error">> ELSE <<"ok", o.res>>

\* C17: for fixed indices and flags, a query and the query of a permutation
\* of its seed list have the same outcome: the same sorted dependency list,
\* or a failure both times.
C17_QueryOrderFree ==
    rs.phase = "answered" => Outcome(rs.first) = Outcome(rs.second)

(***************************************************************************)
(* Package history: NewPackageHistory and PackageHistory.scanUpdates.      *)
(***************************************************************************)
MaxChangelogEntries == 10
MaxCommits == 11

Commits(p) == LET n[r \in 0..MaxRelease, t \in 0..MaxTime] ==
                      IF r = 0 THEN 0
                      ELSE IF t = 0 THEN n[r - 1, MaxTime]
                      ELSE n[r, t - 1] + p.log[[release |-> r, time |-> t]]
              IN  n[MaxRelease, MaxTime]

\* A commit that touches the directory of the recipe.
Git_Commit ==
    /\ Commits(ph) + ph.malformed < MaxCommits
    /\ \/ \E c \in Revisions :
             ph' = [ph EXCEPT !.log[c] = @ + 1, !.scanned = FALSE,
                              !.Updates = <<>>]
       \/ /\ ph.malformed = 0
          /\ ph' = [ph EXCEPT !.malformed = 1, !.scanned = FALSE,
                              !.Updates = <<>>]
    /\ UNCHANGED <<sessVars, lockVars, conf, dl, rs, lc, rp, env>>

\* SortUpdatesByRelease.Less
Less(a, b) == a.release < b.release

\* The orders in which the updates of release r can stand in updateSet
\* after sort.Sort: the commits are appended in the order of their hashes
\* and the sort is not stable, so equal releases stand in any order.
OfRelease(p, r) ==
    LET k == Commits([p EXCEPT !.log = [c \in Revisions |->
                                           IF c.release = r THEN @[c] ELSE 0]])
    IN  {[i \in 1..k |-> [release |-> r, time |-> s[i]]] :
            s \in {s \in [1..k -> Times] :
                     \A t \in Times :
                        Cardinality({i \in 1..k : s[i] = t})
                           = p.log[[release |-> r, time |-> t]]}}

\* sort.Sort(sort.Reverse(SortUpdatesByRelease(updateSet))): the results it
\* can give, highest release first.
RECURSIVE Sorted(_, _)
Sorted(p, r) ==
    IF r = 0 THEN {<<>>}
    ELSE {a \o b : a \in OfRelease(p, r), b \in Sorted(p, r - 1)}

\* if len(updateSet) >= MaxChangelogEntries { updateSet[:MaxChangelogEntries] }
Truncate(s) == IF Len(s) >= MaxChangelogEntries
               THEN SubSeq(s, 1, MaxChangelogEntries) ELSE s

\* NewPackageHistory, scanUpdates: commits whose recipe does not parse are
\* skipped, the others are sorted and cut.
PackageHistory_scanUpdates ==
    /\ ~ph.scanned
    /\ \E s \in Sorted(ph, MaxRelease) :
          ph' = [ph EXCEPT !.scanned = TRUE, !.Updates = Truncate(s)]
    /\ UNCHANGED <<sessVars, lockVars, conf, dl, rs, lc, rp, env>>

HistorySpec == LockInit /\ [][Git_Commit \/ PackageHistory_scanUpdates]_vars

\* The time of the newest commit that carries release r.
Newest(p, r) ==
    CHOOSE t \in Times :
       /\ p.log[[release |-> r, time |-> t]] > 0
       /\ \A u \in Times : p.log[[release |-> r, time |-> u]] > 0 => u <= t

\* C18: the history holds no two updates of the same release, and the
\* update kept for a release is the one of the newest commit carrying it.
C18_OneUpdatePerRelease ==
    ph.scanned =>
       \A i, j \in DOMAIN ph.Updates :
          /\ i # j => ph.Updates[i].release # ph.Updates[j].release
          /\ ph.Updates[i].time = Newest(ph, ph.Updates[i].release)

\* (release, time) of a is not below that of b.
NotBelow(a, b) ==
    a.release > b.release \/ (a.release = b.release /\ a.time >= b.time)

\* The commits of revision c that are not in the history.
Dropped(p, c) ==
    p.log[c] - Cardinality({i \in DOMAIN p.Updates : p.Updates[i] = c})

\* C19: the history holds at most 10 updates, in descending order of
\* release and, for equal releases, of time; what was cut off comes after
\* every update kept in that order.
C19_TenNewestInOrder ==
    ph.scanned =>
       /\ Len(ph.Updates) <= 10
       /\ \A i, j \in DOMAIN ph.Updates :
             i < j => NotBelow(ph.Updates[i], ph.Updates[j])
       /\ \A i \in DOMAIN ph.Updates, c \in Revisions :
             Dropped(ph, c) > 0 => NotBelow(ph.Updates[i], c)

\* C14: when the recipe denies networking, the build command is started only
\* in a process that has entered new network and UTS namespaces and has
\* brought up loopback; after a failure of either step it is never started.
C14_BuildOnlyIsolated ==
    /\ ~net.canNetwork /\ net.built => net.unshared /\ net.loopback
    /\ ~net.canNetwork /\ ~(net.unshared /\ net.loopback)
       /\ (pc["w"] \in {"w_return", "w_exit"} \/ result.val # "none")
          => ~net.built

C14_Witness ==
    /\ ~net.canNetwork /\ net.built /\ net.unshared /\ net.loopback
    /\ pc["w"] = "BuildCmd" /\ child.st = "running"

\* C15: a layer that the session created or reused is not deleted by the
\* session's cleanup, so that the next build of the same inputs finds it.
C15_ReadyLayerKept ==
    layer.ready => layer.dir # "absent"

\* C20: with tmpfs backing the overlay records the tmpfs it mounted at its
\* base directory, and once the process has ended after its cleanup no
\* tmpfs of the session is mounted.
C20_TmpfsRecordedAndReleased ==
    /\ "tmpfs" \in mounted => ov.mountedTmpfs
    /\ Exited /\ hist.bodies > 0 => "tmpfs" \notin mounted

C22_UnmountInReverseOrder ==
    LET reverse == <<"extras", "vfs", "union", "img", "tmpfs">>
        place(k) == CHOOSE n \in DOMAIN reverse : reverse[n] = k
        calls == hist.unmount.calls
    IN  \A i, j \in DOMAIN calls : i < j => place(calls[i]) < place(calls[j])

\* C23: Overlay.Unmount calls Unmount on every kind of mount the overlay
\* recorded, whichever of them fail, and returns the error of the first
\* call that failed (nil when none did).
C23_EveryUnmountAttempted ==
    LET u == hist.unmount
        firstFailed == {i \in DOMAIN u.calls :
                          /\ u.calls[i] \in u.failed
                          /\ \A j \in 1..(i - 1) : u.calls[j] \notin u.failed}
    IN  /\ u.due \subseteq {u.calls[i] : i \in DOMAIN u.calls}
        /\ u.failed = {} => u.ret = "nil"
        /\ \A i \in firstFailed : u.ret = u.calls[i]

\* C24: the overlay drops the record of a mount only when the unmount
\* succeeded: a mount of the overlay that is still in place is still
\* recorded by its flag, or by its entry in ExtraMounts.
C24_FlagsReflectUnmounts ==
    /\ "img" \in mounted => ov.mountedImg
    /\ "union" \in mounted => ov.mountedOverlay
    /\ mounted \cap {"dev", "vfsrest"} # {} => ov.mountedVFS
    /\ "extras" \in hist.unmount.failed => ov.extraMounts # <<>>

\* C25: the target of an extra bind mount is entered in ExtraMounts before
\* the bind is made: as long as the session has unmounted nothing, every
\* bind mount in place below the overlay is listed in ExtraMounts.
C25_ExtraMountsListedFirst ==
    hist.bodies = 0 =>
       \A m \in mounted \cap ({"cache", "index"}
                                \cup {SourceTarget(i) : i \in Sources}) :
          \E i \in DOMAIN ov.extraMounts : ov.extraMounts[i] = m

\* C26: the image is mounted before the union and the union before any VFS
\* mount: until the session starts to unmount, the union is only in place
\* over the image, and the build user is added and the VFS mounts are made
\* only while the union is in place.
C26_LowerBeforeUpper ==
    hist.bodies = 0 /\ op # "update" =>
       /\ "union" \in mounted => "img" \in mounted
       /\ mounted \cap {"dev", "vfsrest"} # {} => "union" \in mounted
       /\ AtStep({"AddBuildUser", "MountDev", "MountVfsRest"}) =>
             "union" \in mounted

\* C27: when BindSources is about to bind a source, the file it binds
\* (SourceDir/<validator>/<file>) is in the host cache.
C27_FetchBeforeBind ==
    AtStep({"BindSources"}) => idx \in fetched

C29_QueryDeterministic ==
    rs.phase = "answered" =>
       /\ \A o \in Orders(ComponentRoots(rs)) :
             Outcome(Query(rs, rs.pkgs, o)) = Outcome(rs.first)
       /\ ~rs.first.err =>
             \A i, j \in DOMAIN rs.first.res :
                i < j => Rank(rs.first.res[i]) < Rank(rs.first.res[j])

\* The names the walk of a query reaches: the seeds, the members of the
\* requested components, the 32-bit seed set when requested, and the
\* runtime dependencies of every package among them.
Known(r, n) == n \in DOMAIN r.providers \cup DOMAIN r.nameToPkg
RECURSIVE Reached(_, _)
Reached(r, S) ==
    LET pkgOf(n) == IF n \in DOMAIN r.providers THEN r.providers[n] ELSE n
        more == UNION {{r.nameToPkg[pkgOf(n)].deps[k] :
                           k \in DOMAIN r.nameToPkg[pkgOf(n)].deps} :
                       n \in {m \in S : pkgOf(m) \in DOMAIN r.nameToPkg}}
    IN  IF more \subseteq S THEN S ELSE Reached(r, S \cup more)

\* C30: a query in whose walk a name is reached that is neither a package
\* nor a virtual capability returns an error.
C30_UnknownNameFails ==
    rs.phase = "answered" =>
       LET roots == {rs.pkgs[k] : k \in DOMAIN rs.pkgs}
                    \cup ComponentRoots(rs)
                    \cup (IF rs.emul32
                          THEN {Emul32Pkgs[k] : k \in DOMAIN Emul32Pkgs}
                          ELSE {})
       IN  (\E n \in Reached(rs, roots) : ~Known(rs, n)) => rs.first.err

\* The packages of the transitive closure of the runtime dependencies from
\* the seed sets of the query, providers substituted for capabilities.
QueryClosure(r) ==
    LET roots == {r.pkgs[k] : k \in DOMAIN r.pkgs}
                 \cup ComponentRoots(r)
                 \cup (IF r.emul32
                       THEN {Emul32Pkgs[k] : k \in DOMAIN Emul32Pkgs}
                       ELSE {})
        pkgOf(n) == IF n \in DOMAIN r.providers THEN r.providers[n] ELSE n
    IN  {pkgOf(n) : n \in Reached(r, roots)} \cap DOMAIN r.nameToPkg

\* C31: the result of a successful query holds exactly the packages of the
\* transitive closure of the runtime dependencies from the seed sets.
C31_ResultIsClosure ==
    rs.phase = "answered" /\ ~rs.first.err =>
       {rs.first.res[k] : k \in DOMAIN rs.first.res} = QueryClosure(rs)

\* C32: once the process has ended, or the operation has returned after its
\* cleanup, a layer whose creation this session began and did not finish
\* has no directory left: the next request for the key finds no content
\* directory.
C32_FailedLayerRemoved ==
    (Exited \/ pc["w"] = "w_exit") /\ mgr.layer = "set" =>
       layer.dir # "partial"

\* C33: a layer directory left by a creation that did not finish is never
\* handed to the session by RequestOverlay as it is.
C33_UnfinishedLayerNotReused ==
    layer.ready => layer.dir # "partial"

\* C35: in a build, the union is mounted with the content directory that
\* RequestOverlay returned and the backing image as its lower directories.
C35_LayerIsLowerOfUnion ==
    op = "build" /\ layer.ready /\ "union" \in mounted /\ hist.bodies = 0 =>
       {"layer", "img"} \subseteq Overlay_LowerDirs(ov)

\* C36: a Fetch of a source declared with a sha256 sum that obtained bytes
\* of another sum fails, leaves SourceDir as it was and leaves no file in
\* the staging directory.
C36_MismatchLeavesNothing ==
    /\ dl.last.scheme # "none" /\ ~dl.last.legacy
    /\ dl.last.validator \in Sha256Sums
    /\ Sha256(dl.last.served) # dl.last.validator
    /\ dl.last.err \notin {"transfer", "copy"}
    => /\ dl.last.err # "nil"
       /\ dl.last.same
       /\ dl.staging = "none"

(***************************************************************************)
(* Layer cache: processes that ask for the layer of one key, each inside   *)
(* its own session (sessions of different packages hold different          *)
(* lockfiles).  dir is the state of <layers-root>/<key>: absent, partial   *)
(* (content directory present, installation not finished) or complete.     *)
(***************************************************************************)
\* Layer.RequestOverlay: PathExists(<base>/content) decides between reuse
\* and Create.
LayerCache_Request(p) ==
    /\ lc.at[p] = "idle"
    /\ lc' = [lc EXCEPT !.at[p] = IF lc.dir = "absent" THEN "create" ELSE "hit"]
    /\ UNCHANGED <<sessVars, lockVars, conf, dl, rs, ph, rp, env>>

\* Layer.Create, up to the installation: CleanExisting removes the base
\* directory, EnsureDirs makes the content directory anew.
LayerCache_CreateBegin(p) ==
    /\ lc.at[p] = "create"
    /\ lc' = [lc EXCEPT !.at[p] = "creating", !.dir = "partial"]
    /\ UNCHANGED <<sessVars, lockVars, conf, dl, rs, ph, rp, env>>

\* Layer.Create, the installation and the return.
LayerCache_CreateEnd(p) ==
    /\ lc.at[p] = "creating"
    /\ \E ok \in BOOLEAN :
          lc' = [lc EXCEPT
                   !.at[p] = IF ok THEN "created" ELSE "failed",
                   !.dir = IF ok /\ @ = "partial" THEN "complete" ELSE @,
                   !.made = IF ok THEN Cap2(@) ELSE @]
    /\ UNCHANGED <<sessVars, lockVars, conf, dl, rs, ph, rp, env>>

\* The end of the session: Manager.Cleanup calls RemoveIfNotCreated on the
\* layer it asked for.
LayerCache_Release(p) ==
    /\ lc.at[p] \in {"hit", "created", "failed"}
    /\ lc' = [lc EXCEPT
                !.at[p] = "idle",
                !.dir = Layer_RemoveIfNotCreated(
                           [dir |-> @, ready |-> TRUE, created |-> FALSE]).dir]
    /\ UNCHANGED <<sessVars, lockVars, conf, dl, rs, ph, rp, env>>

LayerInit ==
    /\ SessionIdle
    /\ conf = NewManager /\ dl = EmptyCache /\ rs = NewResolver /\ ph = EmptyLog
    /\ rp = NoProfile /\ env = NoEnvironment
    /\ lc \in [dir : {"absent", "partial", "complete"},
                at : {[p \in Procs |-> "idle"]}, made : {0}]

LayerSpec ==
    LayerInit /\ [][\E p \in Procs : \/ LayerCache_Request(p)
                                      \/ LayerCache_CreateBegin(p)
                                      \/ LayerCache_CreateEnd(p)
                                      \/ LayerCache_Release(p)]_vars

\* C34: at most one process at a time is creating the layer directory of a
\* key, and the layer of a key is created successfully at most once.
C34_CreationSerialized ==
    /\ Cardinality({p \in Procs : lc.at[p] = "creating"}) <= 1
    /\ lc.made <= 1

(***************************************************************************)
(* Repositories of a profile: those whose index Manager.InitResolver reads *)
(* and those EopkgManager.ConfigureRepos leaves configured in the sandbox. *)
(* A repository is named by its id; "Solus" is the repository the backing  *)
(* image comes with.                                                       *)
(***************************************************************************)
SeqToSet(s) == {s[k] : k \in DOMAIN s}

\* The profiles NewProfileFromPath accepts: add_repos is ["*"] or names
\* declared repositories only.
Profiles ==
    {[image |-> i, repos |-> r, add |-> a, remove |-> x] :
        i \in {"unstable-x86_64", "stable-x86_64", "main-x86_64"},
        r \in SUBSET {"A", "B"},
        a \in {<<>>, <<"*">>, <<"A">>, <<"B">>, <<"A", "B">>, <<"B", "A">>},
        x \in {<<>>, <<"*">>, <<"Solus">>, <<"A">>}}

\* Manager.InitResolver, the list of repositories it reads:
\* strings.Contains(profile.Image, "unstable") / "stable" picks the default
\* repository, any remove_repos entry empties the list, and each add_repos
\* entry found in profile.Repos is appended.
InitResolver_Repos(p) ==
    LET default == IF p.image \in {"unstable-x86_64", "stable-x86_64"}
                   THEN {"Solus"} ELSE {}
        kept == IF Len(p.remove) # 0 THEN {} ELSE default
    IN  kept \cup (SeqToSet(p.add) \cap p.repos)

\* EopkgManager.ConfigureRepos on a root that has the repositories
\* installed: ["*"] removes all of them, any other list the named ones
\* ("eopkg remove-repo" of a repository that is not there may fail); then
\* all repositories of the profile are added if add_repos is ["*"] or
\* empty, the named ones otherwise.
ConfigureRepos_Repos(p, installed, removeMissingFails) ==
    LET removals == IF p.remove = <<"*">> THEN installed
                    ELSE SeqToSet(p.remove)
        added == IF p.add = <<"*">> \/ Len(p.add) = 0 THEN p.repos
                 ELSE SeqToSet(p.add)
    IN  IF removeMissingFails /\ ~(removals \subseteq installed)
        THEN [err |-> TRUE, repos |-> installed \cap removals]
        ELSE [err |-> FALSE, repos |-> (installed \ removals) \cup added]

\* InitResolver and, in the sandbox of the layer, ConfigureRepos.
Profile_Repositories ==
    /\ rp.phase = "loaded"
    /\ rp' = [rp EXCEPT
                !.phase = "configured",
                !.resolver = InitResolver_Repos(rp),
                !.sandbox = ConfigureRepos_Repos(rp, {"Solus"},
                                                 rp.removeMissingFails)]
    /\ UNCHANGED <<sessVars, lockVars, conf, dl, rs, ph, lc, env>>

ReposInit ==
    /\ SessionIdle
    /\ conf = NewManager /\ dl = EmptyCache /\ rs = NewResolver /\ ph = EmptyLog
    /\ lc = NoLayers /\ env = NoEnvironment
    /\ \E p \in Profiles, f \in BOOLEAN :
          /\ p.add = <<"*">> \/ SeqToSet(p.add) \subseteq p.repos
          /\ rp = [NoProfile EXCEPT
                      !.image = p.image, !.repos = p.repos, !.add = p.add,
                      !.remove = p.remove, !.removeMissingFails = f,
                      !.phase = "loaded"]

ReposSpec == ReposInit /\ [][Profile_Repositories]_vars

\* C37: for every profile the repositories whose index the resolver reads
\* are exactly those configured in the sandbox.
C37_SameRepositories ==
    rp.phase = "configured" /\ ~rp.sandbox.err =>
       rp.resolver = rp.sandbox.repos

(***************************************************************************)
(* SaneEnvironment: the environment of the processes run in the sandbox.   *)
(* An environment is a sequence of <<name, value>> pairs; host maps a name *)
(* of the host environment to its value.                                   *)
(***************************************************************************)
\* os.Getenv: "" for a variable that is not set.
Getenv(host, n) == IF n \in DOMAIN host THEN host[n] ELSE ""

\* strings.ToUpper on the permitted names.
ToUpper(n) ==
    CASE n = "http_proxy"  -> "HTTP_PROXY"
      [] n = "https_proxy" -> "HTTPS_PROXY"
      [] n = "no_proxy"    -> "NO_PROXY"
      [] n = "ftp_proxy"   -> "FTP_PROXY"
      [] OTHER             -> n

\* The loop over permitted: the variable, or its upper-case spelling, is
\* appended when the host sets it.
RECURSIVE Passthrough(_, _, _)
Passthrough(host, permitted, k) ==
    IF k > Len(permitted) THEN <<>>
    ELSE LET p == IF Getenv(host, permitted[k]) = ""
                  THEN ToUpper(permitted[k]) ELSE permitted[k]
         IN  (IF Getenv(host, p) = "" THEN <<>>
              ELSE << <<p, Getenv(host, p)>> >>)
             \o Passthrough(host, permitted, k + 1)

SaneEnvironment(host, DisableColors) ==
    LET fixed == << <<"PATH", "/usr/bin:/usr/sbin:/bin/:/sbin">>,
                    <<"LANG", "en_US.UTF-8">>, <<"LC_ALL", "en_US.UTF-8">>,
                    <<"HOME", "home">>, <<"USER", "username">>,
                    <<"USERNAME", "username">>, <<"CCACHE_DIR", "ccache">>,
                    <<"SCCACHE_DIR", "sccache">> >>
        permitted == <<"http_proxy", "https_proxy", "no_proxy", "ftp_proxy",
                       "TERM">>
                     \o (IF ~DisableColors THEN <<"TERM">> ELSE <<>>)
    IN  fixed \o Passthrough(host, permitted, 1)
        \o (IF DisableColors THEN << <<"TERM", "dumb">> >> ELSE <<>>)

\* The call of SaneEnvironment for a command run in the sandbox.
ChrootExec_SaneEnvironment ==
    /\ env.phase = "host"
    /\ env' = [env EXCEPT
                 !.phase = "built",
                 !.environment = SaneEnvironment(env.host, env.DisableColors)]
    /\ UNCHANGED <<sessVars, lockVars, conf, dl, rs, ph, lc, rp>>

\* Any host environment over a few names, each unset or set.
EnvInit ==
    /\ SessionIdle
    /\ conf = NewManager /\ dl = EmptyCache /\ rs = NewResolver /\ ph = EmptyLog
    /\ lc = NoLayers /\ rp = NoProfile
    /\ \E set \in SUBSET {"http_proxy", "HTTP_PROXY", "no_proxy", "TERM",
                          "LD_PRELOAD", "AWS_SECRET_ACCESS_KEY"},
          c \in BOOLEAN :
          env = [NoEnvironment EXCEPT
                    !.host = [n \in set |-> IF n = "TERM" THEN "xterm"
                                            ELSE "hostvalue"],
                    !.DisableColors = c, !.phase = "host"]

EnvSpec == EnvInit /\ [][ChrootExec_SaneEnvironment]_vars

\* C38: with colour disabled the environment has TERM=dumb as its only
\* TERM entry, and in every case it holds no variable outside the fixed
\* names and the optional proxy names and TERM.
C38_TermDumbAndNothingElse ==
    env.phase = "built" =>
       LET E == env.environment
           names == {"PATH", "LANG", "LC_ALL", "HOME", "USER", "USERNAME",
                     "CCACHE_DIR", "SCCACHE_DIR", "TERM",
                     "http_proxy", "https_proxy", "no_proxy", "ftp_proxy",
                     "HTTP_PROXY", "HTTPS_PROXY", "NO_PROXY", "FTP_PROXY"}
       IN  /\ env.DisableColors =>
                 /\ \A k \in DOMAIN E : E[k][1] = "TERM" => E[k][2] = "dumb"
                 /\ Cardinality({k \in DOMAIN E : E[k][1] = "TERM"}) = 1
           /\ \A k \in DOMAIN E : E[k][1] \in names

\* C39: when a call of Cleanup has run all its steps, no child process the
\* session started in the sandbox is still running.
C39_NoChildAfterCleanup ==
    \A t \in Threads :
       pc[t] = "c_ret" /\ hist.steps[t] = CleanupSteps => child.st # "running"

\* The session's attempt to take the lock failed: it opened the lockfile and
\* did not get the lock.
LockRefused ==
    /\ mgr.lockfile
    /\ ~hist.lockTaken
    /\ pc["w"] # "w_lock"

\* C40: when the lock could not be taken because another process owns the
\* lockfile, the session's Cleanup, deferred or run by the signal handler,
\* does no step: it neither unlocks nor removes the lockfile, kills no
\* process and unmounts nothing, and the owner keeps its lock and its file.
C40_FailedLockLeavesOwnerIntact ==
    LockRefused =>
       /\ ~mgr.didStart
       /\ \A t \in Threads : hist.steps[t] = {}
       /\ hist.unlocks = 0 /\ hist.cleans = 0
       /\ hist.unmount = NoUnmount /\ mounted = {}
       /\ child.st = "none"
       /\ lockPath # 0 /\ flock[lockPath] \notin {0, Self}
       /\ ~lk[Self].owner

C40_Witness ==
    /\ LockRefused
    /\ result.val = "err"
    /\ pc["w"] = "w_exit"
    /\ flock[lockPath] = 2
=============================================================================
